---------------------------- MODULE Spec2Model ----------------------------
(***************************************************************************)
(* Verification model of the FlashCard vocabulary trainer.                 *)
(*                                                                         *)
(* Strings are sequences of one-character strings, so that template       *)
(* literals, toLowerCase, trim and the whitespace regexp are computed      *)
(* character by character.  Every call of Math.random (and every          *)
(* sort(() => Math.random() - 0.5)) is resolved by an explicit random     *)
(* outcome, a natural number handed to the operator that models the call.  *)
(***************************************************************************)
EXTENDS Integers, Sequences, FiniteSets, TLC

(***************************************************************************)
(* Bounds of the model.                                                    *)
(***************************************************************************)
MaxGenCards == 10       \* longest section handed to QuizMode / TestMode
MaxSeed == 119          \* random streams start at 0..MaxSeed
MaxStride == 5          \* random streams advance by 0..MaxStride per draw
MaxPool == 4            \* longest pool handed to the distractor sampler
MaxPracticeCards == 2   \* longest section handed to Flashcard / Response
MaxTally == 3           \* responses counted in one flashcard pass
MaxTimers == 2          \* pending advance timers of FlashcardMode
MaxAnswerCards == 2     \* longest section answered in QuizMode / TestMode
MaxAnswerSeed == 11     \* random streams of answered questions start at 0..MaxAnswerSeed
MaxAnswerStride == 2    \* and advance by 0..MaxAnswerStride per draw
MaxTextLen == 3         \* longest text handed to a grading function on its own
MaxCorrectKeys == 2     \* longest list of correct keys of a multi-select question

(***************************************************************************)
(* Strings.                                                                *)
(***************************************************************************)
DigitChar == <<"0", "1", "2", "3", "4", "5", "6", "7", "8", "9">>

RECURSIVE NumberToString(_)
NumberToString(k) ==
    IF k < 10 THEN <<DigitChar[k + 1]>>
    ELSE NumberToString(k \div 10) \o <<DigitChar[(k % 10) + 1]>>

DefinitionPrefix == <<"D", "e", "f", "i", "n", "i", "t", "i", "o", "n">>
WordPrefix == <<"W", "o", "r", "d">>

\* `${prefix} ${k}`
Placeholder(prefix, k) == prefix \o <<" ">> \o NumberToString(k)

Range(s) == {s[i] : i \in 1..Len(s)}

Occurrences(s, x) == Cardinality({i \in 1..Len(s) : s[i] = x})

IsPermutationOf(s, t) ==
    /\ Len(s) = Len(t)
    /\ \A x \in Range(s) \cup Range(t) : Occurrences(s, x) = Occurrences(t, x)

(***************************************************************************)
(* The random source.                                                      *)
(***************************************************************************)
RandDenom == 6          \* Math.random() yields k / RandDenom, k in 0..RandDenom-1

RECURSIVE Factorial(_)
Factorial(n) == IF n <= 1 THEN 1 ELSE n * Factorial(n - 1)

RemoveAt(s, i) == SubSeq(s, 1, i - 1) \o SubSeq(s, i + 1, Len(s))

\* the k-th permutation of s; k in 0..Len(s)!-1 enumerates them all
RECURSIVE NthPerm(_, _)
NthPerm(s, k) ==
    IF Len(s) = 0 THEN <<>>
    ELSE LET n == Len(s)
             i == (k % n) + 1
         IN  <<s[i]>> \o NthPerm(RemoveAt(s, i), k \div n)

\* arr.sort(() => Math.random() - 0.5): the order the engine leaves is one of
\* the permutations of arr, selected by the random outcome r
SortRandom(s, r) == NthPerm(s, r)

\* Math.floor(Math.random() * n) with Math.random() = (r % RandDenom) / RandDenom
RandomIndex(n, r) == ((r % RandDenom) * n) \div RandDenom

\* crypto.randomUUID().slice(0, 8)
HexChar == <<"0", "7", "f">>
RandomUUID8(r) == [i \in 1..8 |-> HexChar[(r % 3) + 1]]

\* the j-th draw of the random stream that starts at seed and advances by stride
Draw(seed, stride, j) == seed + stride * j

(***************************************************************************)
(* Cards and sections.                                                     *)
(***************************************************************************)
Card(id, vocab, meaning) == [id |-> id, vocab |-> vocab, meaning |-> meaning]

\* base lists of cards; a section is a prefix of one of them
BaseLen == 12

CardId(i) == <<"c">> \o NumberToString(i)

\* pairwise different terms and meanings
PlainCards ==
    [i \in 1..BaseLen |->
        Card(CardId(i), <<"v">> \o NumberToString(i), <<"m">> \o NumberToString(i))]

\* several cards share a term or a meaning
SharedCards ==
    [i \in 1..BaseLen |->
        Card(CardId(i), <<"v">> \o NumberToString(i % 2), <<"m">> \o NumberToString(i % 3))]

\* terms and meanings that read like the synthetic placeholders
NumberedCards ==
    [i \in 1..BaseLen |->
        Card(CardId(i), Placeholder(WordPrefix, i), Placeholder(DefinitionPrefix, i))]

Prefixes(base, max) == {SubSeq(base, 1, k) : k \in 0..max}

GenSections ==
    Prefixes(PlainCards, MaxGenCards) \cup Prefixes(SharedCards, MaxGenCards)
        \cup Prefixes(NumberedCards, MaxGenCards)

(***************************************************************************)
(* Distractor sampling and question generation.                            *)
(***************************************************************************)
\* pool.filter(m => m !== correct)
FilterOut(pool, correct) == SelectSeq(pool, LAMBDA m : m # correct)

\* .slice(0, 3)
Slice3(s) == SubSeq(s, 1, IF Len(s) < 3 THEN Len(s) ELSE 3)

\* variant of Fallback: the placeholders are numbered from 1
RECURSIVE FallbackNumbered(_, _, _)
FallbackNumbered(distractors, prefix, k) ==
    IF Len(distractors) < 3
    THEN FallbackNumbered(Append(distractors, Placeholder(prefix, k)), prefix, k + 1)
    ELSE distractors

FallbackFromOne(distractors, prefix) == FallbackNumbered(distractors, prefix, 1)

\* while (distractors.length < 3) distractors.push(`${prefix} ${distractors.length + 1}`)
RECURSIVE Fallback(_, _)
Fallback(distractors, prefix) ==
    IF Len(distractors) < 3
    THEN Fallback(Append(distractors, Placeholder(prefix, Len(distractors) + 1)), prefix)
    ELSE distractors

\* the three distractors of one multiple-choice question
Distractors(pool, correct, prefix, r) ==
    Fallback(Slice3(SortRandom(FilterOut(pool, correct), r)), prefix)

\* [...distractors, correct].sort(() => Math.random() - 0.5)
Options(distractors, correct, r) == SortRandom(Append(distractors, correct), r)

\* variant of QuestionId: the id is the random suffix alone
QuestionIdNoIndex(idx, r) == <<"q", "-">> \o RandomUUID8(r)

\* `q-${idx}-${crypto.randomUUID().slice(0, 8)}`
QuestionId(idx, r) == <<"q", "-">> \o NumberToString(idx) \o <<"-">> \o RandomUUID8(r)

AllMeanings(sec) == [i \in 1..Len(sec) |-> sec[i].meaning]
AllWords(sec) == [i \in 1..Len(sec) |-> sec[i].vocab]


\* variant of QuizQuestion: the distractors are sampled from the terms
QuizQuestionWordPool(sec, idx, rPool, rOptions, rId) ==
    LET card == sec[idx + 1]
        distractors == Distractors(AllWords(sec), card.meaning, DefinitionPrefix, rPool)
    IN  [id |-> QuestionId(idx, rId),
         card |-> card,
         options |-> Options(distractors, card.meaning, rOptions)]

\* QuizMode: the callback of section.cards.map((card, idx) => ...), idx from 0
QuizQuestion(sec, idx, rPool, rOptions, rId) ==
    LET card == sec[idx + 1]
        distractors == Distractors(AllMeanings(sec), card.meaning, DefinitionPrefix, rPool)
    IN  [id |-> QuestionId(idx, rId),
         card |-> card,
         options |-> Options(distractors, card.meaning, rOptions)]

\* QuizMode: the question sequence the generation effect stores
QuizQuestions(sec, seed, stride) ==
    LET qs == [k \in 1..Len(sec) |->
                  QuizQuestion(sec, k - 1,
                               Draw(seed, stride, 3 * (k - 1)),
                               Draw(seed, stride, 3 * (k - 1) + 1),
                               Draw(seed, stride, 3 * (k - 1) + 2))]
    IN  SortRandom(qs, Draw(seed, stride, 3 * Len(sec)))

\* variant of Ceil: Math.floor(a / b)
CeilAsFloor(a, b) == a \div b

\* Math.ceil(a / b)
Ceil(a, b) == IF a % b = 0 THEN a \div b ELSE (a \div b) + 1

\* TestMode: numberOfCards + Math.ceil(numberOfCards / 4)
TotalQuestions(numberOfCards) == numberOfCards + Ceil(numberOfCards, 4)

\* TestMode: rand < 0.33, rand < 0.66, else
QuestionType(r) ==
    LET k == r % RandDenom
    IN  IF 100 * k < 33 * RandDenom THEN "mc-word-to-meaning"
        ELSE IF 100 * k < 66 * RandDenom THEN "mc-meaning-to-word"
        ELSE "response"

\* TestMode: one iteration of the generation loop, i from 0
TestQuestion(sec, i, rCard, rType, rPool, rOptions, rId) ==
    LET card == sec[RandomIndex(Len(sec), rCard) + 1]
        questionType == QuestionType(rType)
    IN  IF questionType = "mc-word-to-meaning"
        THEN [id |-> QuestionId(i, rId), type |-> questionType, card |-> card,
              options |-> Options(Distractors(AllMeanings(sec), card.meaning,
                                              DefinitionPrefix, rPool),
                                  card.meaning, rOptions),
              correctAnswer |-> card.meaning]
        ELSE IF questionType = "mc-meaning-to-word"
        THEN [id |-> QuestionId(i, rId), type |-> questionType, card |-> card,
              options |-> Options(Distractors(AllWords(sec), card.vocab,
                                              WordPrefix, rPool),
                                  card.vocab, rOptions),
              correctAnswer |-> card.vocab]
        ELSE [id |-> QuestionId(i, rId), type |-> questionType, card |-> card,
              correctAnswer |-> card.vocab]

\* TestMode: the question sequence the generation effect stores
TestQuestions(sec, seed, stride) ==
    LET total == TotalQuestions(Len(sec))
        generatedQuestions == [k \in 1..total |->
                  TestQuestion(sec, k - 1,
                               Draw(seed, stride, 5 * (k - 1)),
                               Draw(seed, stride, 5 * (k - 1) + 1),
                               Draw(seed, stride, 5 * (k - 1) + 2),
                               Draw(seed, stride, 5 * (k - 1) + 3),
                               Draw(seed, stride, 5 * (k - 1) + 4))]
    IN  SortRandom(generatedQuestions, Draw(seed, stride, 5 * total))

(***************************************************************************)
(* State.                                                                  *)
(***************************************************************************)
VARIABLES
    mode,           \* App: the view that is mounted
    section,        \* the cards of the section handed to the mounted component
    mounted,        \* the mount effect of the component has run
    questions,      \* QuizMode / TestMode
    cards,          \* FlashcardMode / ResponseMode: cards of the current pass
    index,          \* FlashcardMode / ResponseMode
    isDone,         \* every practice component
    isFlipped,      \* FlashcardMode
    forgotten,      \* FlashcardMode
    remembered,     \* FlashcardMode
    timers,         \* FlashcardMode: setTimeout callbacks not yet run
    lastResponse,   \* history: card id -> latest response in this pass
    userInput,      \* ResponseMode
    showFeedback,   \* ResponseMode
    isCorrect,      \* ResponseMode
    incorrect,      \* ResponseMode
    correct,        \* ResponseMode
    samplerArgs,    \* distractor sampler called on its own: arguments
    samplerResult,  \* distractor sampler called on its own: result
    userAnswers,    \* QuizMode / TestMode / ListeningTest: question id -> answer
    showAnswers,    \* ListeningTest: the answers are submitted
    callArgs,       \* a grading function called on its own: arguments
    callResult,     \* a grading function called on its own: result
    sections,       \* App: the collection
    selectedIds,    \* App
    showExportModal, \* App
    showImportModal, \* App
    activeId,       \* App
    deleteId,       \* App
    dragItem,       \* App: dragItem.current
    title,          \* SectionEditor
    desc,           \* SectionEditor
    editorCards     \* SectionEditor: cards

vars == <<mode, section, mounted, questions, cards, index, isDone, isFlipped,
          forgotten, remembered, timers, lastResponse, userInput, showFeedback,
          isCorrect, incorrect, correct, samplerArgs, samplerResult,
          userAnswers, showAnswers, callArgs, callResult, sections, selectedIds,
          showExportModal, showImportModal, activeId, deleteId, dragItem, title, desc,
          editorCards>>

genVars == <<questions>>
flashVars == <<isFlipped, forgotten, remembered, timers>>
respVars == <<userInput, showFeedback, isCorrect, incorrect, correct>>
historyVars == <<lastResponse>>
passVars == <<cards, index, isDone>>
samplerVars == <<samplerArgs, samplerResult>>
answerVars == <<userAnswers, showAnswers>>
callVars == <<callArgs, callResult>>
appVars == <<sections, selectedIds, showExportModal, showImportModal, activeId, deleteId,
             dragItem>>
editorVars == <<title, desc, editorCards>>

NoResponses == [id \in {} |-> "none"]

\* useState<Record<string, string>>({})
NoAnswers == [id \in {} |-> <<>>]

\* the useState initial values of the practice components
InitialState ==
    /\ mounted = FALSE
    /\ questions = <<>>
    /\ cards = <<>>
    /\ index = 0
    /\ isDone = FALSE
    /\ isFlipped = FALSE
    /\ forgotten = <<>>
    /\ remembered = 0
    /\ timers = 0
    /\ lastResponse = NoResponses
    /\ userInput = <<>>
    /\ showFeedback = FALSE
    /\ isCorrect = FALSE
    /\ incorrect = <<>>
    /\ correct = 0
    /\ samplerArgs = <<>>
    /\ samplerResult = <<>>
    /\ userAnswers = NoAnswers
    /\ showAnswers = FALSE

\* no grading function has been called on its own
NoCall == callArgs = <<>> /\ callResult = FALSE

\* null
Null == <<>>

\* a string value and a number value of parsed JSON
Str(s) == [kind |-> "string", value |-> s]
Num(s) == [kind |-> "number", value |-> s]

\* the useState initial values of App, nothing saved in localStorage
InitialApp ==
    /\ sections = <<>>
    /\ selectedIds = {}
    /\ showExportModal = FALSE
    /\ showImportModal = FALSE
    /\ activeId = Null
    /\ deleteId = Null
    /\ dragItem = -1

\* the useState initial values of SectionEditor mounted without a section
InitialEditor ==
    /\ title = Str(<<>>)
    /\ desc = <<>>
    /\ editorCards = <<>>

(***************************************************************************)
(* Question generation: QuizMode and TestMode mounted on a section.        *)
(***************************************************************************)
InitGen ==
    /\ mode \in {"quiz", "test"}
    /\ section \in GenSections
    /\ InitialState
    /\ InitialApp
    /\ InitialEditor
    /\ NoCall

\* QuizMode: useEffect(() => { ... setQuestions(qs.sort(...)) }, [section])
QuizGenerate ==
    /\ mode = "quiz"
    /\ ~mounted
    /\ \E seed \in 0..MaxSeed, stride \in 0..MaxStride :
          questions' = QuizQuestions(section, seed, stride)
    /\ mounted' = TRUE
    /\ UNCHANGED <<mode, section, passVars, flashVars, historyVars, respVars, samplerVars, answerVars, callVars, appVars, editorVars>>

\* TestMode: useEffect(() => { ... setQuestions(generatedQuestions.sort(...)) }, [section])
TestGenerate ==
    /\ mode = "test"
    /\ ~mounted
    /\ \E seed \in 0..MaxSeed, stride \in 0..MaxStride :
          questions' = TestQuestions(section, seed, stride)
    /\ mounted' = TRUE
    /\ UNCHANGED <<mode, section, passVars, flashVars, historyVars, respVars, samplerVars, answerVars, callVars, appVars, editorVars>>

NextGen == QuizGenerate \/ TestGenerate

SpecGen == InitGen /\ [][NextGen]_vars

(***************************************************************************)
(* The distractor sampler on its own.                                      *)
(***************************************************************************)
PoolValues == {<<"x">>, <<"y">>, Placeholder(DefinitionPrefix, 2), Placeholder(WordPrefix, 1)}

Pools == UNION {[1..n -> PoolValues] : n \in 0..MaxPool}

InitSample ==
    /\ mode = "dashboard"
    /\ section = <<>>
    /\ InitialState
    /\ InitialApp
    /\ InitialEditor
    /\ NoCall

Sample ==
    /\ samplerArgs = <<>>
    /\ \E pool \in Pools, c \in PoolValues, prefix \in {DefinitionPrefix, WordPrefix} :
          \E r \in 0..(Factorial(Len(FilterOut(pool, c))) - 1) :
              /\ samplerArgs' = <<pool, c, prefix>>
              /\ samplerResult' = Distractors(pool, c, prefix, r)
    /\ UNCHANGED <<mode, section, mounted, genVars, passVars, flashVars, historyVars, respVars,
                   answerVars, callVars, appVars, editorVars>>

NextSample == Sample

SpecSample == InitSample /\ [][NextSample]_vars


(***************************************************************************)
(* Answer normalisation (ResponseMode.normalizeString).                    *)
(***************************************************************************)
UpperChars == <<"A", "B", "C", "D", "E", "F", "G", "H", "I", "J", "K", "L", "M",
                "N", "O", "P", "Q", "R", "S", "T", "U", "V", "W", "X", "Y", "Z">>
LowerChars == <<"a", "b", "c", "d", "e", "f", "g", "h", "i", "j", "k", "l", "m",
                "n", "o", "p", "q", "r", "s", "t", "u", "v", "w", "x", "y", "z">>

LowerChar(c) ==
    IF \E i \in 1..26 : UpperChars[i] = c
    THEN LowerChars[CHOOSE i \in 1..26 : UpperChars[i] = c]
    ELSE c

\* str.toLowerCase()
ToLowerCase(str) == [i \in 1..Len(str) |-> LowerChar(str[i])]

\* the characters matched by \s and removed by trim()
IsSpace(c) == c \in {" ", "\t", "\n"}

RECURSIVE TrimStart(_)
TrimStart(str) ==
    IF Len(str) > 0 /\ IsSpace(str[1]) THEN TrimStart(Tail(str)) ELSE str

RECURSIVE TrimEnd(_)
TrimEnd(str) ==
    IF Len(str) > 0 /\ IsSpace(str[Len(str)])
    THEN TrimEnd(SubSeq(str, 1, Len(str) - 1))
    ELSE str

\* str.trim()
Trim(str) == TrimEnd(TrimStart(str))

\* str.replace(/\s+/g, ' ')
RECURSIVE CollapseSpaces(_)
CollapseSpaces(str) ==
    IF Len(str) = 0 THEN <<>>
    ELSE IF IsSpace(str[1]) THEN <<" ">> \o CollapseSpaces(TrimStart(str))
    ELSE <<str[1]>> \o CollapseSpaces(Tail(str))

\* variant of NormalizeString: the case of the letters is kept
NormalizeKeepCase(str) == CollapseSpaces(Trim(str))

\* str.toLowerCase().trim().replace(/\s+/g, ' ')
NormalizeString(str) == CollapseSpaces(Trim(ToLowerCase(str)))

(***************************************************************************)
(* Practice passes: FlashcardMode and ResponseMode mounted on a section.   *)
(***************************************************************************)
TypedCards ==
    << Card(CardId(1), <<"r", "u", "n">>, <<"m", "1">>),
       Card(CardId(2), <<"A", " ", " ", "b">>, <<"m", "2">>),
       Card(CardId(3), <<"x">>, <<"m", "3">>),
       Card(CardId(4), <<"y">>, <<"m", "4">>) >>

PracticeSections == Prefixes(TypedCards, MaxPracticeCards)

\* what the user types into the answer field
Inputs ==
    { <<>>, <<" ">>, <<" ", " ", "R", "u", "n", " ">>,
      <<"r", "u", "n", "n", "i", "n", "g">>, <<"a", "\t", "B">>, <<"a", "b">> }

InitSession ==
    /\ mode \in {"flashcard", "response"}
    /\ section \in PracticeSections
    /\ InitialState
    /\ InitialApp
    /\ InitialEditor
    /\ NoCall

\* f with the entry for key k set to v
Record(f, k, v) == [x \in DOMAIN f \cup {k} |-> IF x = k THEN v ELSE f[x]]

\* ---- FlashcardMode ----

\* useEffect(() => setCards([...section.cards].sort(...)), [section])
FlashcardMount ==
    /\ mode = "flashcard"
    /\ ~mounted
    /\ \E r \in 0..(Factorial(Len(section)) - 1) : cards' = SortRandom(section, r)
    /\ mounted' = TRUE
    /\ UNCHANGED <<mode, section, questions, index, isDone, flashVars, historyVars, respVars,
                   samplerVars, answerVars, callVars, appVars, editorVars>>

\* the card view is rendered: cards.length > 0, not done, cards[index] defined
\* (with cards[index] undefined the render throws on current.vocab)
CardShown ==
    /\ mode = "flashcard"
    /\ mounted
    /\ Len(cards) > 0
    /\ ~isDone
    /\ index < Len(cards)

\* const current = cards[index] is undefined and the render throws on
\* current.vocab: React unmounts the component
RenderThrows ==
    /\ mode = "flashcard"
    /\ mounted
    /\ Len(cards) > 0
    /\ ~isDone
    /\ index >= Len(cards)

\* onClick={() => setIsFlipped(!isFlipped)}
Flip ==
    /\ CardShown
    /\ isFlipped' = ~isFlipped
    /\ UNCHANGED <<mode, section, mounted, questions, passVars, forgotten,
                   remembered, timers, lastResponse, respVars, samplerVars, answerVars, callVars, appVars, editorVars>>

\* handleResponse(isCorrect)
HandleResponse(isCorrectArg) ==
    /\ CardShown
    /\ remembered + Len(forgotten) < MaxTally
    /\ (index < Len(cards) - 1) => timers < MaxTimers
    /\ LET current == cards[index + 1]
       IN  /\ IF ~isCorrectArg
              THEN forgotten' = Append(forgotten, current) /\ UNCHANGED remembered
              ELSE remembered' = remembered + 1 /\ UNCHANGED forgotten
           /\ lastResponse' = Record(lastResponse, current.id,
                                     IF isCorrectArg THEN "got" ELSE "forgot")
    /\ IF index < Len(cards) - 1
       THEN /\ isFlipped' = FALSE
            /\ timers' = timers + 1
            /\ UNCHANGED isDone
       ELSE /\ isDone' = TRUE
            /\ UNCHANGED <<isFlipped, timers>>
    /\ UNCHANGED <<mode, section, mounted, questions, cards, index, respVars,
                   samplerVars, answerVars, callVars, appVars, editorVars>>

\* variant of TimerFire: the callback also ends the pass behind the last card
TimerFireAndFinish ==
    /\ mode = "flashcard"
    /\ mounted
    /\ timers > 0
    /\ ~RenderThrows
    /\ index' = index + 1
    /\ timers' = timers - 1
    /\ isDone' = (isDone \/ index + 1 >= Len(cards) - 1)
    /\ UNCHANGED <<mode, section, mounted, questions, cards, isFlipped,
                   forgotten, remembered, lastResponse, respVars, samplerVars, answerVars, callVars, appVars, editorVars>>

\* the callback of setTimeout(() => setIndex(prev => prev + 1), 150)
TimerFire ==
    /\ mode = "flashcard"
    /\ mounted
    /\ timers > 0
    /\ ~RenderThrows
    /\ index' = index + 1
    /\ timers' = timers - 1
    /\ UNCHANGED <<mode, section, mounted, questions, cards, isDone, isFlipped,
                   forgotten, remembered, lastResponse, respVars, samplerVars, answerVars, callVars, appVars, editorVars>>

\* variant of HandleBack: going back also takes back the counted response
HandleBackUndo ==
    /\ CardShown
    /\ IF index > 0
       THEN /\ isFlipped' = FALSE
            /\ index' = index - 1
            /\ remembered' = IF remembered > 0 THEN remembered - 1 ELSE 0
       ELSE UNCHANGED <<isFlipped, index, remembered>>
    /\ UNCHANGED <<mode, section, mounted, questions, cards, isDone, forgotten,
                   timers, lastResponse, respVars, samplerVars, answerVars, callVars, appVars, editorVars>>

\* handleBack()
HandleBack ==
    /\ CardShown
    /\ IF index > 0
       THEN /\ isFlipped' = FALSE
            /\ index' = index - 1
       ELSE UNCHANGED <<isFlipped, index>>
    /\ UNCHANGED <<mode, section, mounted, questions, cards, isDone, forgotten,
                   remembered, timers, lastResponse, respVars, samplerVars, answerVars, callVars, appVars, editorVars>>

\* variant of RestartWithForgotten: the new pass takes each missed card once
RestartWithForgottenOnce ==
    /\ mode = "flashcard"
    /\ mounted
    /\ Len(cards) > 0
    /\ isDone
    /\ Len(forgotten) > 0
    /\ LET once == SelectSeq(section, LAMBDA c : c \in Range(forgotten))
       IN  \E r \in 0..(Factorial(Len(once)) - 1) : cards' = SortRandom(once, r)
    /\ forgotten' = <<>>
    /\ remembered' = 0
    /\ index' = 0
    /\ isFlipped' = FALSE
    /\ isDone' = FALSE
    /\ lastResponse' = NoResponses
    /\ UNCHANGED <<mode, section, mounted, questions, timers, respVars, samplerVars, answerVars, callVars, appVars, editorVars>>

\* restartWithForgotten(), the Review Missed button of the end screen
RestartWithForgotten ==
    /\ mode = "flashcard"
    /\ mounted
    /\ Len(cards) > 0
    /\ isDone
    /\ Len(forgotten) > 0
    /\ \E r \in 0..(Factorial(Len(forgotten)) - 1) : cards' = SortRandom(forgotten, r)
    /\ forgotten' = <<>>
    /\ remembered' = 0
    /\ index' = 0
    /\ isFlipped' = FALSE
    /\ isDone' = FALSE
    /\ lastResponse' = NoResponses
    /\ UNCHANGED <<mode, section, mounted, questions, timers, respVars, samplerVars, answerVars, callVars, appVars, editorVars>>

\* ---- ResponseMode ----

\* useEffect(() => setCards([...section.cards].sort(...)), [section])
ResponseMount ==
    /\ mode = "response"
    /\ ~mounted
    /\ \E r \in 0..(Factorial(Len(section)) - 1) : cards' = SortRandom(section, r)
    /\ mounted' = TRUE
    /\ UNCHANGED <<mode, section, questions, index, isDone, flashVars, historyVars, respVars,
                   samplerVars, answerVars, callVars, appVars, editorVars>>

\* the question view is rendered
InputShown ==
    /\ mode = "response"
    /\ mounted
    /\ Len(cards) > 0
    /\ ~isDone

\* onChange={(e) => setUserInput(e.target.value)}; the field is disabled
\* while the feedback is shown
SetUserInput ==
    /\ InputShown
    /\ ~showFeedback
    /\ \E value \in Inputs : userInput' = value
    /\ UNCHANGED <<mode, section, mounted, questions, passVars, flashVars, historyVars,
                   showFeedback, isCorrect, incorrect, correct, samplerVars, answerVars, callVars, appVars, editorVars>>

\* variant of CheckAnswer: the typed text is compared as it is
CheckAnswerExact ==
    LET currentCard == cards[index + 1]
        ok == userInput = currentCard.vocab
    IN  /\ isCorrect' = ok
        /\ showFeedback' = TRUE
        /\ IF ~ok
           THEN incorrect' = Append(incorrect, currentCard) /\ UNCHANGED correct
           ELSE correct' = correct + 1 /\ UNCHANGED incorrect
        /\ lastResponse' = Record(lastResponse, currentCard.id, userInput)
        /\ UNCHANGED <<mode, section, mounted, questions, passVars, isFlipped,
                       forgotten, remembered, timers, userInput, samplerVars, answerVars, callVars, appVars, editorVars>>

\* checkAnswer()
CheckAnswer ==
    LET currentCard == cards[index + 1]
        userAnswer == NormalizeString(userInput)
        correctAnswer == NormalizeString(currentCard.vocab)
        ok == userAnswer = correctAnswer
    IN  /\ isCorrect' = ok
        /\ showFeedback' = TRUE
        /\ IF ~ok
           THEN incorrect' = Append(incorrect, currentCard) /\ UNCHANGED correct
           ELSE correct' = correct + 1 /\ UNCHANGED incorrect
        /\ lastResponse' = Record(lastResponse, currentCard.id, userInput)
        /\ UNCHANGED <<mode, section, mounted, questions, passVars, isFlipped,
                       forgotten, remembered, timers, userInput, samplerVars, answerVars, callVars, appVars, editorVars>>

\* handleNext()
HandleNext ==
    /\ IF index < Len(cards) - 1
       THEN /\ showFeedback' = FALSE
            /\ userInput' = <<>>
            /\ index' = index + 1
            /\ UNCHANGED isDone
       ELSE /\ isDone' = TRUE
            /\ UNCHANGED <<showFeedback, userInput, index>>
    /\ UNCHANGED <<mode, section, mounted, questions, cards, flashVars, historyVars, isCorrect,
                   incorrect, correct, samplerVars, answerVars, callVars, appVars, editorVars>>

\* the Check Answer button, disabled={!userInput.trim()}
ClickCheckAnswer ==
    /\ InputShown
    /\ ~showFeedback
    /\ Trim(userInput) # <<>>
    /\ CheckAnswer

\* the Next / Finish button, rendered while the feedback is shown
ClickNext ==
    /\ InputShown
    /\ showFeedback
    /\ HandleNext

\* handleKeyPress(e) with e.key === 'Enter', on the enabled answer field
HandleKeyPress ==
    /\ InputShown
    /\ ~showFeedback
    /\ IF ~showFeedback THEN CheckAnswer ELSE HandleNext

\* restartWithIncorrect(), the Review Missed button of the end screen
RestartWithIncorrect ==
    /\ mode = "response"
    /\ mounted
    /\ Len(cards) > 0
    /\ isDone
    /\ Len(incorrect) > 0
    /\ \E r \in 0..(Factorial(Len(incorrect)) - 1) : cards' = SortRandom(incorrect, r)
    /\ incorrect' = <<>>
    /\ correct' = 0
    /\ index' = 0
    /\ userInput' = <<>>
    /\ showFeedback' = FALSE
    /\ isDone' = FALSE
    /\ lastResponse' = NoResponses
    /\ UNCHANGED <<mode, section, mounted, questions, isFlipped, forgotten,
                   remembered, timers, isCorrect, samplerVars, answerVars, callVars, appVars, editorVars>>

\* a handler run by a click or a key press of the user
UserAction ==
    \/ Flip
    \/ \E isCorrectArg \in BOOLEAN : HandleResponse(isCorrectArg)
    \/ HandleBack
    \/ RestartWithForgotten
    \/ SetUserInput
    \/ ClickCheckAnswer
    \/ HandleKeyPress
    \/ ClickNext
    \/ RestartWithIncorrect

NextSession ==
    \/ FlashcardMount
    \/ Flip
    \/ \E isCorrectArg \in BOOLEAN : HandleResponse(isCorrectArg)
    \/ TimerFire
    \/ HandleBack
    \/ RestartWithForgotten
    \/ ResponseMount
    \/ SetUserInput
    \/ ClickCheckAnswer
    \/ HandleKeyPress
    \/ ClickNext
    \/ RestartWithIncorrect

SpecSession == InitSession /\ [][NextSession]_vars

(***************************************************************************)
(* Answering: QuizMode and TestMode after their questions are generated.   *)
(***************************************************************************)
\* cards as the import stores them: data.cards is taken over unexamined, so a
\* term or a meaning may be empty or blank
ImportedCards ==
    [i \in 1..BaseLen |->
        Card(CardId(i),
             IF i % 2 = 1 THEN <<>> ELSE <<" ">>,
             IF i % 2 = 1 THEN <<>> ELSE <<"m">> \o NumberToString(i))]

AnswerSections ==
    Prefixes(PlainCards, MaxAnswerCards) \cup Prefixes(ImportedCards, MaxAnswerCards)

\* texts the user leaves in the input of a response question
AnswerInputs == { <<>>, <<" ">>, <<"V", "1", " ">>, <<"v", "2">> }

InitAnswer ==
    /\ mode \in {"quiz", "test"}
    /\ section \in AnswerSections
    /\ InitialState
    /\ InitialApp
    /\ InitialEditor
    /\ NoCall

\* QuizMode: the generation effect, its random stream drawn from the smaller
\* set that is explored together with the answers
QuizMount ==
    /\ mode = "quiz"
    /\ ~mounted
    /\ \E seed \in 0..MaxAnswerSeed, stride \in 0..MaxAnswerStride :
          questions' = QuizQuestions(section, seed, stride)
    /\ mounted' = TRUE
    /\ UNCHANGED <<mode, section, passVars, flashVars, historyVars, respVars,
                   samplerVars, answerVars, callVars, appVars, editorVars>>

\* TestMode: the generation effect, likewise
TestMount ==
    /\ mode = "test"
    /\ ~mounted
    /\ \E seed \in 0..MaxAnswerSeed, stride \in 0..MaxAnswerStride :
          questions' = TestQuestions(section, seed, stride)
    /\ mounted' = TRUE
    /\ UNCHANGED <<mode, section, passVars, flashVars, historyVars, respVars,
                   samplerVars, answerVars, callVars, appVars, editorVars>>

\* QuizMode renders its questions: if (questions.length === 0) return null
QuizShown == mode = "quiz" /\ mounted /\ Len(questions) > 0

\* TestMode renders its questions: if (questions.length === 0) return null
TestShown == mode = "test" /\ mounted /\ Len(questions) > 0

\* ---- QuizMode ----

\* variant of HandleSelect: the answer is stored whether or not the quiz is done
HandleSelectAlways(questionId, option) ==
    /\ QuizShown
    /\ userAnswers' = Record(userAnswers, questionId, option)
    /\ UNCHANGED <<mode, section, mounted, questions, passVars, flashVars, historyVars,
                   respVars, samplerVars, showAnswers, callVars, appVars, editorVars>>

\* handleSelect(questionId, option), run by a click on an option of a question
HandleSelect(questionId, option) ==
    /\ QuizShown
    /\ IF isDone
       THEN UNCHANGED userAnswers
       ELSE userAnswers' = Record(userAnswers, questionId, option)
    /\ UNCHANGED <<mode, section, mounted, questions, passVars, flashVars, historyVars,
                   respVars, samplerVars, showAnswers, callVars, appVars, editorVars>>

\* calculateScore()
QuizCalculateScore ==
    Cardinality({i \in 1..Len(questions) :
                    /\ questions[i].id \in DOMAIN userAnswers
                    /\ userAnswers[questions[i].id] = questions[i].card.meaning})

\* handleEndTest(); the End Test button is in the sidebar, rendered while !isDone
QuizHandleEndTest ==
    /\ QuizShown
    /\ ~isDone
    /\ isDone' = TRUE
    /\ UNCHANGED <<mode, section, mounted, questions, cards, index, flashVars, historyVars,
                   respVars, samplerVars, answerVars, callVars, appVars, editorVars>>

\* ---- TestMode ----

\* variant of HandleSelectMC: the answer is stored under the id of the card
HandleSelectMCByCard(questionId, option) ==
    /\ TestShown
    /\ IF isDone
       THEN UNCHANGED userAnswers
       ELSE \E i \in 1..Len(questions) :
               /\ questions[i].id = questionId
               /\ userAnswers' = Record(userAnswers, questions[i].card.id, option)
    /\ UNCHANGED <<mode, section, mounted, questions, passVars, flashVars, historyVars,
                   respVars, samplerVars, showAnswers, callVars, appVars, editorVars>>

\* handleSelectMC(questionId, option)
HandleSelectMC(questionId, option) ==
    /\ TestShown
    /\ IF isDone
       THEN UNCHANGED userAnswers
       ELSE userAnswers' = Record(userAnswers, questionId, option)
    /\ UNCHANGED <<mode, section, mounted, questions, passVars, flashVars, historyVars,
                   respVars, samplerVars, showAnswers, callVars, appVars, editorVars>>

\* handleResponseInput(questionId, value)
HandleResponseInput(questionId, value) ==
    /\ TestShown
    /\ IF isDone
       THEN UNCHANGED userAnswers
       ELSE userAnswers' = Record(userAnswers, questionId, value)
    /\ UNCHANGED <<mode, section, mounted, questions, passVars, flashVars, historyVars,
                   respVars, samplerVars, showAnswers, callVars, appVars, editorVars>>

\* !userAnswer: no entry under the id, or the empty string
Falsy(answers, id) == id \notin DOMAIN answers \/ answers[id] = <<>>

\* variant of IsAnswerCorrect: an empty answer is compared like any other
IsAnswerCorrectNoGuard(q) ==
    IF q.id \notin DOMAIN userAnswers THEN FALSE
    ELSE IF q.type = "response"
         THEN NormalizeString(userAnswers[q.id]) = NormalizeString(q.correctAnswer)
         ELSE userAnswers[q.id] = q.correctAnswer

\* isAnswerCorrect(q)
IsAnswerCorrect(q) ==
    IF Falsy(userAnswers, q.id) THEN FALSE
    ELSE IF q.type = "response"
         THEN NormalizeString(userAnswers[q.id]) = NormalizeString(q.correctAnswer)
         ELSE userAnswers[q.id] = q.correctAnswer

\* calculateScore(): the loop over the questions with its own copy of the test
TestCalculateScore ==
    Cardinality({i \in 1..Len(questions) :
                    /\ ~Falsy(userAnswers, questions[i].id)
                    /\ IF questions[i].type = "response"
                       THEN NormalizeString(userAnswers[questions[i].id])
                                = NormalizeString(questions[i].correctAnswer)
                       ELSE userAnswers[questions[i].id] = questions[i].correctAnswer})

\* handleEndTest()
TestHandleEndTest ==
    /\ TestShown
    /\ ~isDone
    /\ isDone' = TRUE
    /\ UNCHANGED <<mode, section, mounted, questions, cards, index, flashVars, historyVars,
                   respVars, samplerVars, answerVars, callVars, appVars, editorVars>>

\* Object.keys(userAnswers).length, the Completed counter of the sidebar
Completed == Cardinality(DOMAIN userAnswers)

\* the handlers are taken to run in every state in which the questions are
\* rendered, so that their own isDone test is what keeps the answers
NextAnswer ==
    \/ QuizMount
    \/ TestMount
    \/ /\ mode = "quiz"
       /\ \E i \in 1..Len(questions) :
             \E option \in Range(questions[i].options) :
                 HandleSelect(questions[i].id, option)
    \/ QuizHandleEndTest
    \/ /\ mode = "test"
       /\ \E i \in 1..Len(questions) :
             /\ questions[i].type # "response"
             /\ \E option \in Range(questions[i].options) :
                   HandleSelectMC(questions[i].id, option)
    \/ /\ mode = "test"
       /\ \E i \in 1..Len(questions) :
             /\ questions[i].type = "response"
             /\ \E value \in AnswerInputs :
                   HandleResponseInput(questions[i].id, value)
    \/ TestHandleEndTest

SpecAnswer == InitAnswer /\ [][NextAnswer]_vars

(***************************************************************************)
(* The four practice components together.                                  *)
(***************************************************************************)
InitPractice == InitSession \/ InitAnswer

NextPractice == NextSession \/ NextAnswer

SpecPractice == InitPractice /\ [][NextPractice]_vars

\* variant of RenderDivisors: the renders do not return on an empty sequence
RenderDivisorsUnguarded ==
    IF mode \in {"flashcard", "response"}
    THEN IF isDone THEN {} ELSE {Len(cards)}
    ELSE IF mode \in {"quiz", "test"}
         THEN IF ~isDone THEN {} ELSE {Len(questions)}
         ELSE {}

\* the divisors of the percentages the render of the current state evaluates:
\* ((index + 1) / cards.length) * 100 after the returns on cards.length === 0
\* and on isDone; (calculateScore() / questions.length) * 100 after the return
\* on questions.length === 0 and inside {isDone && ...}
RenderDivisors ==
    IF mode \in {"flashcard", "response"}
    THEN IF Len(cards) = 0 \/ isDone THEN {} ELSE {Len(cards)}
    ELSE IF mode \in {"quiz", "test"}
         THEN IF Len(questions) = 0 \/ ~isDone THEN {} ELSE {Len(questions)}
         ELSE {}

(***************************************************************************)
(* normalizeString and the typed-answer comparison on their own.           *)
(***************************************************************************)
TextChars == {"a", "A", " ", "\t"}

Texts == UNION {[1..n -> TextChars] : n \in 0..MaxTextLen}

\* the texts normalizeString is applied to
NormalizeInputs == Texts \cup Inputs

\* the terms a typed answer is compared with
NormalizeReferences == {<<"r", "u", "n">>, <<"a", " ", "b">>}

\* checkAnswer: normalizeString(userInput) === normalizeString(currentCard.vocab)
GradeTyped(input, vocab) == NormalizeString(input) = NormalizeString(vocab)

InitNormalize ==
    /\ mode = "dashboard"
    /\ section = <<>>
    /\ InitialState
    /\ InitialApp
    /\ InitialEditor
    /\ NoCall

\* normalizeString(str)
Normalize ==
    /\ \E str \in NormalizeInputs :
          /\ callArgs' = <<"normalizeString", str>>
          /\ callResult' = NormalizeString(str)
    /\ UNCHANGED <<mode, section, mounted, genVars, passVars, flashVars, historyVars, respVars,
                   samplerVars, answerVars, appVars, editorVars>>

\* normalizeString applied to the result of the call before
NormalizeAgain ==
    /\ callArgs # <<>>
    /\ callArgs[1] = "normalizeString"
    /\ callArgs' = <<"normalizeString", callResult>>
    /\ callResult' = NormalizeString(callResult)
    /\ UNCHANGED <<mode, section, mounted, genVars, passVars, flashVars, historyVars, respVars,
                   samplerVars, answerVars, appVars, editorVars>>

\* the comparison of a typed answer with a term
Grade ==
    /\ \E input \in NormalizeInputs, vocab \in NormalizeReferences :
          /\ callArgs' = <<"grade", input, vocab>>
          /\ callResult' = GradeTyped(input, vocab)
    /\ UNCHANGED <<mode, section, mounted, genVars, passVars, flashVars, historyVars, respVars,
                   samplerVars, answerVars, appVars, editorVars>>

NextNormalize == Normalize \/ NormalizeAgain \/ Grade

SpecNormalize == InitNormalize /\ [][NextNormalize]_vars

(***************************************************************************)
(* ListeningTest: one question of the test data, answered and submitted.   *)
(***************************************************************************)
\* an answer is a string or a list of option keys
TextAnswer(value) == [kind |-> "string", value |-> value]
KeysAnswer(value) == [kind |-> "array", value |-> value]

\* the keys of the options of a multi-select question
Keys == {"A", "B", "C"}

\* answer lists of the test data
CorrectKeyLists == UNION {[1..n -> Keys] : n \in 0..MaxCorrectKeys}

\* (limit || 3) with no limit in the test data
Limit == 3

TextQuestionId == 1
KeysQuestionId == 2

\* callArgs holds the question of the test data under grading: its id and its
\* reference answer
InitListening ==
    /\ mode = "listening"
    /\ section = <<>>
    /\ InitialState
    /\ InitialApp
    /\ InitialEditor
    /\ callResult = FALSE
    /\ \/ \E c \in Texts : callArgs = <<TextQuestionId, TextAnswer(c)>>
       \/ \E c \in CorrectKeyLists : callArgs = <<KeysQuestionId, KeysAnswer(c)>>

\* handleAnswerChange(questionId, answer)
HandleAnswerChange(questionId, answer) ==
    /\ userAnswers' = Record(userAnswers, questionId, answer)
    /\ UNCHANGED <<mode, section, mounted, genVars, passVars, flashVars, historyVars, respVars,
                   samplerVars, showAnswers, callVars, appVars, editorVars>>

\* the texts one keystroke away from text: a character more or the last one less
Keystrokes(text) ==
    {text \o <<c>> : c \in IF Len(text) < MaxTextLen THEN TextChars ELSE {}}
        \cup (IF Len(text) > 0 THEN {SubSeq(text, 1, Len(text) - 1)} ELSE {})

\* onChange of a text input showing userAnswers[q.id] || '', disabled once the
\* answers are shown
ListeningType ==
    /\ mode = "listening"
    /\ ~showAnswers
    /\ callArgs[1] = TextQuestionId
    /\ LET current == IF callArgs[1] \in DOMAIN userAnswers
                      THEN userAnswers[callArgs[1]].value ELSE <<>>
       IN  \E value \in Keystrokes(current) :
               HandleAnswerChange(callArgs[1], TextAnswer(value))

\* filter(a => a !== key)
Without(s, key) == SelectSeq(s, LAMBDA a : a # key)

\* onChange of the checkbox of a key; the checkbox is disabled once the
\* answers are shown and, when unchecked, once limit keys are selected
ListeningToggle ==
    /\ mode = "listening"
    /\ callArgs[1] = KeysQuestionId
    /\ \E key \in Keys :
          LET currentAnswers == IF callArgs[1] \in DOMAIN userAnswers
                                THEN userAnswers[callArgs[1]].value ELSE <<>>
              isChecked == key \in Range(currentAnswers)
              newAnswers == IF isChecked THEN Without(currentAnswers, key)
                            ELSE Append(currentAnswers, key)
          IN  /\ ~(showAnswers \/ (~isChecked /\ Len(currentAnswers) >= Limit))
              /\ HandleAnswerChange(callArgs[1], KeysAnswer(newAnswers))

\* variant of ListeningCheckAnswer: a list of keys is compared position by position
ListeningCheckAnswerOrdered(questionId, correctAnswer) ==
    IF questionId \notin DOMAIN userAnswers THEN FALSE
    ELSE LET userAnswer == userAnswers[questionId]
         IN  IF userAnswer.kind = "string" /\ userAnswer.value = <<>> THEN FALSE
             ELSE IF correctAnswer.kind = "array"
             THEN IF userAnswer.kind # "array" THEN FALSE
                  ELSE userAnswer.value = correctAnswer.value
             ELSE /\ userAnswer.kind = "string"
                  /\ Trim(ToLowerCase(userAnswer.value)) = Trim(ToLowerCase(correctAnswer.value))

\* variant of ListeningCheckAnswer: a text is compared after toLowerCase() only
ListeningCheckAnswerNoTrim(questionId, correctAnswer) ==
    IF questionId \notin DOMAIN userAnswers THEN FALSE
    ELSE LET userAnswer == userAnswers[questionId]
         IN  IF userAnswer.kind = "string" /\ userAnswer.value = <<>> THEN FALSE
             ELSE IF correctAnswer.kind = "array"
             THEN IF userAnswer.kind # "array" THEN FALSE
                  ELSE /\ Len(correctAnswer.value) = Len(userAnswer.value)
                       /\ \A i \in 1..Len(correctAnswer.value) :
                             correctAnswer.value[i] \in Range(userAnswer.value)
             ELSE /\ userAnswer.kind = "string"
                  /\ ToLowerCase(userAnswer.value) = ToLowerCase(correctAnswer.value)

\* checkAnswer(questionId, correctAnswer); !userAnswer holds for a missing
\* entry and for the empty string, not for the empty list
ListeningCheckAnswer(questionId, correctAnswer) ==
    IF questionId \notin DOMAIN userAnswers THEN FALSE
    ELSE LET userAnswer == userAnswers[questionId]
         IN  IF userAnswer.kind = "string" /\ userAnswer.value = <<>> THEN FALSE
             ELSE IF correctAnswer.kind = "array"
             THEN IF userAnswer.kind # "array" THEN FALSE
                  ELSE /\ Len(correctAnswer.value) = Len(userAnswer.value)
                       /\ \A i \in 1..Len(correctAnswer.value) :
                             correctAnswer.value[i] \in Range(userAnswer.value)
             ELSE /\ userAnswer.kind = "string"
                  /\ Trim(ToLowerCase(userAnswer.value)) = Trim(ToLowerCase(correctAnswer.value))

\* onClick={() => setShowAnswers(true)}; the render that follows grades the
\* question under grading, if there is one, with checkAnswer(q.id, q.answer)
SubmitAnswers ==
    /\ mode = "listening"
    /\ ~showAnswers
    /\ showAnswers' = TRUE
    /\ callResult' = IF callArgs = <<>> THEN callResult
                     ELSE ListeningCheckAnswer(callArgs[1], callArgs[2])
    /\ UNCHANGED <<mode, section, mounted, genVars, passVars, flashVars, historyVars, respVars,
                   samplerVars, userAnswers, callArgs, appVars, editorVars>>

\* Try Again: setShowAnswers(false); setUserAnswers({})
TryAgain ==
    /\ mode = "listening"
    /\ showAnswers
    /\ showAnswers' = FALSE
    /\ userAnswers' = NoAnswers
    /\ UNCHANGED <<mode, section, mounted, genVars, passVars, flashVars, historyVars, respVars,
                   samplerVars, callVars, appVars, editorVars>>

NextListening == ListeningType \/ ListeningToggle \/ SubmitAnswers \/ TryAgain

SpecListening == InitListening /\ [][NextListening]_vars

(***************************************************************************)
(* Properties of question generation.                                      *)
(***************************************************************************)
HasOptions(q) == "options" \in DOMAIN q

\* the answer a question is graded against
CorrectOf(q) == IF "correctAnswer" \in DOMAIN q THEN q.correctAnswer ELSE q.card.meaning

Generated == mode \in {"quiz", "test"} /\ mounted

\* C1: every generated multiple-choice question has exactly 4 options and the
\* correct answer occurs among them exactly once
C1_OptionInvariant ==
    Generated =>
        \A i \in 1..Len(questions) :
            HasOptions(questions[i]) =>
                /\ Len(questions[i].options) = 4
                /\ Occurrences(questions[i].options, CorrectOf(questions[i])) = 1

\* C2: in every generated multiple-choice question the options that differ
\* from the correct answer are pairwise distinct strings
C2_DistinctDistractors ==
    Generated =>
        \A i \in 1..Len(questions) :
            HasOptions(questions[i]) =>
                LET o == questions[i].options
                    c == CorrectOf(questions[i])
                IN  \A a, b \in 1..Len(o) :
                        (a # b /\ o[a] # c /\ o[b] # c) => o[a] # o[b]

Sampled == samplerArgs # <<>>
SampledPool == FilterOut(samplerArgs[1], samplerArgs[2])

\* C3 as stated: with r < 3 values left in the filtered pool the sampler returns
\* those r values followed by the placeholders numbered 1 .. 3-r
C3_FallbackFromOne ==
    (Sampled /\ Len(SampledPool) < 3) =>
        LET r == Len(SampledPool)
        IN  /\ Len(samplerResult) = 3
            /\ IsPermutationOf(SubSeq(samplerResult, 1, r), SampledPool)
            /\ \A k \in 1..(3 - r) :
                  samplerResult[r + k] = Placeholder(samplerArgs[3], k)

\* C3 amended: with r < 3 values left in the filtered pool the sampler returns
\* those r values followed by the placeholders numbered r+1 .. 3, in
\* increasing order (the number of a placeholder is its position)
C3_FallbackByPosition ==
    (Sampled /\ Len(SampledPool) < 3) =>
        LET r == Len(SampledPool)
        IN  /\ Len(samplerResult) = 3
            /\ IsPermutationOf(SubSeq(samplerResult, 1, r), SampledPool)
            /\ \A k \in (r + 1)..3 :
                  samplerResult[k] = Placeholder(samplerArgs[3], k)

\* a sample whose filtered pool holds one value: two placeholders follow it
C3_Witness ==
    /\ Sampled
    /\ Len(SampledPool) = 1
    /\ samplerResult[1] = SampledPool[1]
    /\ samplerResult[2] = Placeholder(samplerArgs[3], 2)

\* the least k with 4k >= n
CeilQuarter(n) == CHOOSE k \in 0..n : 4 * k >= n /\ 4 * (k - 1) < n

\* C4: TestMode builds n + ceil(n/4) questions for a section of n cards, each on
\* a card of the section
C4_CountLaw ==
    (mode = "test" /\ mounted) =>
        /\ Len(questions) = Len(section) + CeilQuarter(Len(section))
        /\ (Len(section) = 10 => Len(questions) = 13)
        /\ (Len(section) = 4 => Len(questions) = 5)
        /\ (Len(section) = 1 => Len(questions) = 2)
        /\ (Len(section) = 0 => Len(questions) = 0)
        /\ \A i \in 1..Len(questions) : questions[i].card \in Range(section)

\* a section of 10 cards for which TestMode built 13 questions, one card twice
C4_Witness ==
    /\ mode = "test"
    /\ mounted
    /\ Len(section) = 10
    /\ Len(questions) = 13
    /\ \E i, j \in 1..Len(questions) : i # j /\ questions[i].card = questions[j].card

(***************************************************************************)
(* Properties of the practice passes.                                      *)
(***************************************************************************)
FlashcardDone == mode = "flashcard" /\ mounted /\ isDone

ResponseOf(card) ==
    IF card.id \in DOMAIN lastResponse THEN lastResponse[card.id] ELSE "none"

\* C5: whenever FlashcardMode is done, remembered + forgotten.length equals the
\* number of cards of the pass
C5_FlashcardScore ==
    FlashcardDone => remembered + Len(forgotten) = Len(cards)

\* C6: in ResponseMode correct + incorrect.length is the number of graded cards
\* (index, plus one while the feedback is shown), it is cards.length when the
\* pass is done, and a card is in incorrect exactly if the text submitted for
\* it differs from its vocab after normalisation
C6_ResponseScore ==
    (mode = "response" /\ mounted) =>
        /\ correct + Len(incorrect) = index + (IF showFeedback THEN 1 ELSE 0)
        /\ isDone => correct + Len(incorrect) = Len(cards)
        /\ Cardinality(DOMAIN lastResponse) = correct + Len(incorrect)
        /\ \A i \in 1..Len(cards) :
              LET c == cards[i]
              IN  /\ Occurrences(incorrect, c) <= 1
                  /\ (c \in Range(incorrect)) <=>
                        /\ c.id \in DOMAIN lastResponse
                        /\ NormalizeString(lastResponse[c.id]) # NormalizeString(c.vocab)
                  /\ (c.vocab = <<"r", "u", "n">> /\ c.id \in DOMAIN lastResponse
                        /\ lastResponse[c.id] = <<" ", " ", "R", "u", "n", " ">>)
                        => c \notin Range(incorrect)
                  /\ (c.vocab = <<"r", "u", "n">> /\ c.id \in DOMAIN lastResponse
                        /\ lastResponse[c.id] = <<"r", "u", "n", "n", "i", "n", "g">>)
                        => c \in Range(incorrect)

\* a finished pass of two cards, one answered "  Run " for "run" and counted
\* correct, the other one missed
C6_Witness ==
    /\ mode = "response"
    /\ isDone
    /\ Len(cards) = 2
    /\ correct = 1
    /\ Len(incorrect) = 1
    /\ \E i \in 1..2 : /\ cards[i].vocab = <<"r", "u", "n">>
                       /\ cards[i].id \in DOMAIN lastResponse
                       /\ lastResponse[cards[i].id] = <<" ", " ", "R", "u", "n", " ">>
                       /\ cards[i] \notin Range(incorrect)

\* C7: whenever FlashcardMode is done, a card of the pass is in forgotten
\* exactly if the latest response for it was Forgot, and at most once
C7_MissedSet ==
    FlashcardDone =>
        \A i \in 1..Len(cards) :
            /\ (cards[i] \in Range(forgotten)) <=> (ResponseOf(cards[i]) = "forgot")
            /\ Occurrences(forgotten, cards[i]) <= 1

\* C8: Review Missed leaves the pass in progress at index 0 with the counter 0
\* and the missed list empty, on a permutation of the missed list
C8_RestartWithMissed ==
    [][ /\ RestartWithForgotten =>
              /\ ~isDone' /\ index' = 0 /\ remembered' = 0 /\ forgotten' = <<>>
              /\ IsPermutationOf(cards', forgotten)
        /\ RestartWithIncorrect =>
              /\ ~isDone' /\ index' = 0 /\ correct' = 0 /\ incorrect' = <<>>
              /\ IsPermutationOf(cards', incorrect)
      ]_vars

\* a flashcard pass restarted on a missed list that held one card twice
C8_Witness ==
    /\ mode = "flashcard"
    /\ mounted
    /\ ~isDone
    /\ index = 0
    /\ remembered = 0
    /\ forgotten = <<>>
    /\ Len(cards) = 2
    /\ cards[1] = cards[2]

\* C9: handleBack changes nothing at index 0; at index i > 0 it sets index to
\* i-1 and leaves remembered, forgotten, cards and isDone unchanged
C9_BackNavigation ==
    [][ HandleBack =>
            IF index = 0
            THEN UNCHANGED vars
            ELSE /\ index' = index - 1
                 /\ UNCHANGED <<remembered, forgotten, cards, isDone>>
      ]_vars

\* the first card shown again after it was answered and the pass advanced
C9_Witness ==
    /\ mode = "flashcard"
    /\ mounted
    /\ ~isDone
    /\ Len(cards) = 2
    /\ index = 0
    /\ timers = 0
    /\ remembered + Len(forgotten) = 1

\* a step that changes the position, the tallies or the done flag
SessionChanged ==
    \/ index' # index
    \/ remembered' # remembered
    \/ forgotten' # forgotten
    \/ correct' # correct
    \/ incorrect' # incorrect
    \/ isDone' # isDone

QuestionCards == [i \in 1..Len(questions) |-> questions[i].card]

DefinitionPlaceholders == {Placeholder(DefinitionPrefix, k) : k \in 1..3}

\* the meanings of the section that differ from the meaning of card c
OtherMeanings(c) == {m \in Range(AllMeanings(section)) : m # c.meaning}

\* C17: QuizMode builds exactly one question per card: the cards of the
\* questions are a permutation of section.cards, and next to the card's own
\* meaning the options hold three distractors, each a meaning of the section
\* different from the card's own or a synthetic placeholder.
C17_QuizOneQuestionPerCard ==
    mode = "quiz" /\ mounted =>
        /\ Len(questions) = Len(section)
        /\ IsPermutationOf(QuestionCards, section)
        /\ \A i \in 1..Len(questions) :
              /\ Len(questions[i].options) = 4
              /\ \E p \in 1..4 :
                    /\ questions[i].options[p] = questions[i].card.meaning
                    /\ \A k \in (1..4) \ {p} :
                          questions[i].options[k]
                              \in OtherMeanings(questions[i].card) \cup DefinitionPlaceholders

\* a quiz whose questions are not in the order of the cards, one with a real
\* distractor beside a placeholder
C17_Witness ==
    /\ mode = "quiz"
    /\ mounted
    /\ Len(section) = 3
    /\ QuestionCards # section
    /\ \E i \in 1..Len(questions) :
          /\ \E k \in 1..4 : questions[i].options[k] \in OtherMeanings(questions[i].card)
          /\ \E k \in 1..4 : questions[i].options[k] \in DefinitionPlaceholders

\* the random suffix of a question id
IdSuffix(id) == SubSeq(id, Len(id) - 7, Len(id))

\* C18: within one generated sequence the question ids are pairwise distinct,
\* whatever the random suffixes are and also when TestMode draws a card
\* several times.
C18_DistinctIds ==
    Generated =>
        \A i, j \in 1..Len(questions) : i # j => questions[i].id # questions[j].id

\* a test with two questions on the same card whose ids have the same suffix
C18_Witness ==
    /\ mode = "test"
    /\ mounted
    /\ \E i, j \in 1..Len(questions) :
          /\ i # j
          /\ questions[i].card.id = questions[j].card.id
          /\ IdSuffix(questions[i].id) = IdSuffix(questions[j].id)

(***************************************************************************)
(* Properties of answering.                                                *)
(***************************************************************************)
Answering == mode \in {"quiz", "test"} /\ mounted /\ Len(questions) > 0

QuestionIds == {questions[i].id : i \in 1..Len(questions)}

\* the score the Done view shows
Score == IF mode = "quiz" THEN QuizCalculateScore ELSE TestCalculateScore

\* C11: once the quiz or the test is Done, no select or text-input event
\* changes userAnswers (so the score stays the same), and isDone never
\* returns to false.
C11_AnswersFrozen ==
    [][isDone => (userAnswers' = userAnswers /\ questions' = questions /\ isDone')]_vars

\* Done with some questions answered and some not: an event on an unanswered
\* question would add an answer
C11_Witness ==
    /\ Answering
    /\ isDone
    /\ userAnswers # NoAnswers
    /\ \E i \in 1..Len(questions) : questions[i].id \notin DOMAIN userAnswers

\* the questions with a stored answer
Answered == Cardinality({i \in 1..Len(questions) : questions[i].id \in DOMAIN userAnswers})

\* the questions the claim counts: multiple-choice questions whose stored
\* answer is exactly the correct option, and response questions graded correct
ExactMatches ==
    Cardinality({i \in 1..Len(questions) :
                    /\ questions[i].id \in DOMAIN userAnswers
                    /\ IF mode = "test" /\ questions[i].type = "response"
                       THEN IsAnswerCorrect(questions[i])
                       ELSE userAnswers[questions[i].id] = CorrectOf(questions[i])})

\* C12: End Test is enabled in every in-progress state and moves to Done
\* without changing the answers; the score then is the number of questions
\* whose stored answer is exactly the correct option, and
\* score <= answered questions <= questions.
C12_EndTestScore ==
    /\ [](Answering /\ ~isDone => ENABLED (QuizHandleEndTest \/ TestHandleEndTest))
    /\ [][~isDone /\ isDone' => userAnswers' = userAnswers]_vars
    /\ [](Answering /\ isDone =>
            /\ Score = ExactMatches
            /\ Score <= Answered
            /\ Answered <= Len(questions))

ResponseQuestions == {i \in 1..Len(questions) : mode = "test" /\ questions[i].type = "response"}

C19_AnswerKeys ==
    mode \in {"quiz", "test"} =>
        /\ DOMAIN userAnswers \subseteq QuestionIds
        /\ Completed <= Len(questions)

\* every question of a test with a repeated card answered
C19_Witness ==
    /\ mode = "test"
    /\ Completed = Len(questions)
    /\ \E i, j \in 1..Len(questions) : i # j /\ questions[i].card.id = questions[j].card.id

(***************************************************************************)
(* Properties of the four components on an empty section.                  *)
(***************************************************************************)
\* C20: on a section with no cards each of the four components builds an
\* empty sequence, never shows a current question and never evaluates a
\* progress or score percentage; no render divides by zero.
C20_EmptySection ==
    /\ 0 \notin RenderDivisors
    /\ Len(section) = 0 =>
          /\ cards = <<>>
          /\ questions = <<>>
          /\ index = 0
          /\ ~isDone
          /\ userAnswers = NoAnswers
          /\ ~CardShown /\ ~RenderThrows /\ ~InputShown /\ ~QuizShown /\ ~TestShown
          /\ RenderDivisors = {}

\* TestMode after its generation effect has run on the empty section
C20_Witness ==
    /\ mode = "test"
    /\ Len(section) = 0
    /\ mounted

(***************************************************************************)
(* Properties of normalisation and of the listening grading.               *)
(***************************************************************************)
\* the submitted answer to the question under grading
Submitted == mode = "listening" /\ showAnswers /\ callArgs[1] \in DOMAIN userAnswers

SubmittedText == Submitted /\ callArgs[1] = TextQuestionId

SubmittedKeys == Submitted /\ callArgs[1] = KeysQuestionId

StoredValue == userAnswers[callArgs[1]].value

ReferenceValue == callArgs[2].value

\* C14: ListeningTest.checkAnswer on a stored string answer a and a string
\* reference c returns true exactly when normalize(a) = normalize(c), normalize
\* being the lower-case, trim, collapse-whitespace function of the practice modes.
C14_ListeningNormalized ==
    SubmittedText =>
        (callResult <=> NormalizeString(StoredValue) = NormalizeString(ReferenceValue))

\* C14 as the code has it: true exactly when the stored answer is not empty and
\* equal to the reference after toLowerCase() and trim(); whitespace inside is
\* compared as typed, so a true result implies equal normalisations, not the
\* reverse.
C14_ListeningLowerTrim ==
    SubmittedText =>
        /\ callResult <=> /\ StoredValue # <<>>
                          /\ Trim(ToLowerCase(StoredValue)) = Trim(ToLowerCase(ReferenceValue))
        /\ callResult => NormalizeString(StoredValue) = NormalizeString(ReferenceValue)

\* an answer equal to the reference after normalisation that is graded false,
\* submitted with a tab where the reference has a space
C14_Witness ==
    /\ SubmittedText
    /\ StoredValue = <<"a", "\t", "A">>
    /\ ReferenceValue = <<"A", " ", "a">>
    /\ NormalizeString(StoredValue) = NormalizeString(ReferenceValue)
    /\ ~callResult

\* C15: a multi-select answer is graded true exactly when the selected keys
\* and the correct keys are equal as sets; order and duplicates do not matter.
C15_KeysAsSets ==
    SubmittedKeys => (callResult <=> Range(StoredValue) = Range(ReferenceValue))

NoDuplicates(s) == \A i, j \in 1..Len(s) : i # j => s[i] # s[j]

\* C15 as the code has it: true exactly when the two lists have the same length
\* and every correct key is among the selected ones; for lists without
\* repeated keys that is equality as sets, whatever the order. The selected
\* list never repeats a key.
C15_KeysByLengthAndContainment ==
    SubmittedKeys =>
        /\ callResult <=> /\ Len(StoredValue) = Len(ReferenceValue)
                          /\ Range(ReferenceValue) \subseteq Range(StoredValue)
        /\ NoDuplicates(StoredValue)
        /\ NoDuplicates(ReferenceValue) =>
              (callResult <=> Range(StoredValue) = Range(ReferenceValue))

\* the correct keys selected in the other order and graded true
C15_Witness ==
    /\ SubmittedKeys
    /\ StoredValue = <<"B", "A">>
    /\ ReferenceValue = <<"A", "B">>
    /\ callResult

\* C16: normalizeString is idempotent, and a typed answer is graded by
\* comparing normalisations: "  Run " against "run" is correct, "running"
\* against "run" is not.
C16_NormalizeIdempotent ==
    /\ callArgs # <<>> /\ callArgs[1] = "normalizeString" =>
          /\ callResult = NormalizeString(callArgs[2])
          /\ NormalizeString(callResult) = callResult
    /\ callArgs = <<"grade", <<" ", " ", "R", "u", "n", " ">>, <<"r", "u", "n">>>> =>
          callResult = TRUE
    /\ callArgs = <<"grade", <<"r", "u", "n", "n", "i", "n", "g">>, <<"r", "u", "n">>>> =>
          callResult = FALSE

\* normalizeString applied to its own result, which differs from the text the
\* first call was given
C16_Witness ==
    /\ callArgs = <<"normalizeString", <<"a", " ", "a">>>>
    /\ callResult = <<"a", " ", "a">>

----------------------------------------------------------------------------
\* Flashcard position and blank answers

\* C25: in FlashcardMode, whatever the order of the response clicks, the
\* Back clicks and the firings of the pending advance timers,
\* 0 <= index <= cards.length - 1 in every reachable state
C25_IndexInRange ==
    (mode = "flashcard" /\ mounted /\ Len(cards) > 0)
        => (0 <= index /\ index <= Len(cards) - 1)

\* C26: in ResponseMode no step taken while the answer field holds a blank
\* text (empty or whitespace only) grades it: the missed list, the counter of
\* correct answers and the feedback flag stay as they are
C26_BlankNeverGraded ==
    [][(InputShown /\ ~showFeedback /\ Trim(userInput) = <<>>)
          => (incorrect' = incorrect /\ correct' = correct /\ showFeedback' = showFeedback)]_vars

----------------------------------------------------------------------------
(***************************************************************************)
(* App: the collection of sections, the dashboard and the section editor.  *)
(***************************************************************************)
MaxSections == 2        \* most sections in the collection
MaxImportElements == 2  \* most elements of one import
MaxEditorCards == 1     \* most card rows in the editor
MaxStale == 1           \* most selected ids whose section is gone

PracticeModes == {"flashcard", "quiz", "response", "test"}

\* deleteId of the bulk action bar
Bulk == <<"B", "U", "L", "K">>

\* the k-th identifier crypto.randomUUID() can return
RandomUUID(k) == <<"u">> \o NumberToString(k)

\* the id carried by a pasted element that this collection never held
ForeignId == <<"x", "0">>

SectionIds(list) == {list[i].id : i \in 1..Len(list)}

CardIds(list) == {list[i].id : i \in 1..Len(list)}

\* every section id the state still holds
UsedIds == SectionIds(sections) \cup selectedIds \cup {activeId, deleteId, ForeignId}

\* crypto.randomUUID() returning a fresh id: ids are opaque and only compared
\* for equality (section ids with section ids, card ids with the ids of the
\* cards of the same list), so the first id that is not among those it can
\* be compared with stands for all of them
FreshUUID(used) ==
    RandomUUID(CHOOSE k \in 1..(Cardinality(used) + 1) :
                  /\ RandomUUID(k) \notin used
                  /\ \A j \in 1..(k - 1) : RandomUUID(j) \in used)

\* Date.now(): times are opaque to the code, which only stores them; one
\* tick after the createdAt of the pasted exports stands for the time of a call
DateNow == 2

\* values of parsed JSON
Arr(s) == [kind |-> "array", value |-> s]
Undefined == [kind |-> "undefined", value |-> <<>>]

\* JavaScript truthiness of a parsed value
Truthy(v) ==
    CASE v.kind = "string" -> v.value # <<>>
      [] v.kind = "number" -> v.value # <<"0">>
      [] v.kind = "array" -> TRUE
      [] OTHER -> FALSE

\* Array.isArray
IsArray(v) == v.kind = "array"

\* a Section; createdAt 0 stands for a createdAt that is absent
Section(id, t, description, list, createdAt) ==
    [id |-> id, title |-> t, description |-> description, cards |-> list,
     createdAt |-> createdAt]

\* an element of a parsed import: an object with the fields it carries, or null
Element(id, t, list, createdAt) ==
    [kind |-> "object", id |-> id, title |-> t, description |-> <<>>,
     cards |-> list, createdAt |-> createdAt]

NullElement ==
    [kind |-> "null", id |-> Null, title |-> Undefined, description |-> <<>>,
     cards |-> Undefined, createdAt |-> 0]

CompleteCard == Card(RandomUUID(1), <<"w">>, <<"m">>)
EmptyCard == Card(RandomUUID(1), <<" ">>, <<>>)

\* the elements a user pastes or uploads: an export of the first section of
\* the collection (of a foreign one when it is empty), a hand-written section with an empty card, a section with a
\* number as title, with an empty title, without cards, and null
ImportElements(list) ==
    {Element(IF Len(list) > 0 THEN list[1].id ELSE ForeignId,
             Str(<<"I">>), Arr(<<CompleteCard>>), 1),
     Element(ForeignId, Str(<<"I">>), Arr(<<EmptyCard>>), 0),
          Element(ForeignId, Num(<<"7">>), Arr(<<CompleteCard>>), 0),
          Element(ForeignId, Str(<<>>), Arr(<<CompleteCard>>), 1),
          Element(ForeignId, Str(<<"I">>), Undefined, 1),
          NullElement}

\* the parsed arrays of at most max elements
ElementLists(list, max) ==
    UNION {[1..n -> ImportElements(list)] : n \in 0..max}

\* sections.find(s => s.id === id): the position of the first match, 0 for none
RECURSIVE FindFrom(_, _, _)
FindFrom(list, id, i) ==
    IF i > Len(list) THEN 0
    ELSE IF list[i].id = id THEN i
    ELSE FindFrom(list, id, i + 1)

Find(list, id) == FindFrom(list, id, 1)

\* const activeSection = sections.find(s => s.id === activeId)
ActiveSection == Find(sections, activeId)

\* a modal covers the page
NoModal == deleteId = Null /\ ~showExportModal /\ ~showImportModal

\* the page takes clicks: no modal is open and no card is being dragged
Clickable == NoModal /\ dragItem = -1

\* the state of the mounted practice component
practiceVars == <<section, mounted, questions, passVars, flashVars, historyVars, respVars,
                  answerVars>>

(***************************************************************************)
(* Import.                                                                 *)
(***************************************************************************)
\* the outcome of JSON.parse on text that is not JSON
Invalid == [kind |-> "invalid", value |-> <<>>]

\* const dataList = Array.isArray(json) ? json : [json]
DataList(json) == IF IsArray(json) THEN json.value ELSE <<json>>

\* variant of ForEachElement: the element keeps the id it carries
RECURSIVE ForEachElementKeepId(_, _, _, _)
ForEachElementKeepId(dataList, i, newSections, used) ==
    IF i > Len(dataList) THEN [newSections |-> newSections, threw |-> FALSE]
    ELSE LET data == dataList[i]
         IN  IF data.kind = "null"
             THEN [newSections |-> newSections, threw |-> TRUE]
             ELSE IF Truthy(data.title) /\ IsArray(data.cards)
                  THEN ForEachElementKeepId(dataList, i + 1,
                           Append(newSections,
                                  Section(data.id, data.title, data.description,
                                          data.cards.value, data.createdAt)),
                           used)
                  ELSE ForEachElementKeepId(dataList, i + 1, newSections, used)

\* dataList.forEach((data) => { if (data.title && Array.isArray(data.cards))
\* { data.id = crypto.randomUUID(); newSections.push(data) } }) from element i
\* on; reading data.title of null throws a TypeError, which ends the loop
RECURSIVE ForEachElement(_, _, _, _)
ForEachElement(dataList, i, newSections, used) ==
    IF i > Len(dataList) THEN [newSections |-> newSections, threw |-> FALSE]
    ELSE LET data == dataList[i]
         IN  IF data.kind = "null"
             THEN [newSections |-> newSections, threw |-> TRUE]
             ELSE IF Truthy(data.title) /\ IsArray(data.cards)
                  THEN LET id == FreshUUID(used)
                       IN  ForEachElement(dataList, i + 1,
                               Append(newSections,
                                      Section(id, data.title, data.description,
                                              data.cards.value, data.createdAt)),
                               used \cup {id})
                  ELSE ForEachElement(dataList, i + 1, newSections, used)

\* the sections handleImportFromText collects: none when JSON.parse or the
\* loop throws, since the catch block only reports
TextSections(json, used) ==
    IF json.kind = "invalid" THEN <<>>
    ELSE LET r == ForEachElement(DataList(json), 1, <<>>, used)
         IN  IF r.threw THEN <<>> ELSE r.newSections

\* the sections handleImportFromFiles collects, the files being read in the
\* given order: each reader.onload has its own try / catch and pushes to the
\* shared newSections
RECURSIVE FileSections(_, _, _, _)
FileSections(files, i, newSections, used) ==
    IF i > Len(files) THEN newSections
    ELSE IF files[i].kind = "invalid"
         THEN FileSections(files, i + 1, newSections, used)
         ELSE LET r == ForEachElement(DataList(files[i]), 1, newSections, used)
              IN  FileSections(files, i + 1, r.newSections,
                               used \cup SectionIds(r.newSections))

\* what the user pastes: text that is no JSON, an array, or a single value
ImportTexts(list) ==
    {Invalid} \cup {Arr(l) : l \in ElementLists(list, MaxImportElements)}
              \cup ImportElements(list)

\* the number of elements a parsed text holds
ElementCount(json) == IF json.kind = "invalid" THEN 0 ELSE Len(DataList(json))

\* the parsed contents of a file that holds something: text that is no JSON,
\* or an array of 1 to max elements
FileContents(list, max) ==
    {Invalid} \cup {Arr(l) : l \in ElementLists(list, max) \ {<<>>}}

\* what the user uploads: one file, or two files
ImportFiles(list) ==
    {<<f>> : f \in FileContents(list, MaxImportElements)}
    \cup UNION {{<<f, g>> : g \in FileContents(list, MaxImportElements - ElementCount(f))} :
                   f \in FileContents(list, MaxImportElements - 1)}

\* await Promise.all(...): the order in which the readers finish
LoadOrder(files, r) == NthPerm(files, r)

\* if (newSections.length > 0) { setSections(prev => [...prev, ...newSections]);
\* setShowImportModal(false) } else alert(...)
Imported(newSections) ==
    /\ Len(sections) + Len(newSections) <= MaxSections
    /\ IF Len(newSections) > 0
       THEN /\ sections' = sections \o newSections
            /\ showImportModal' = FALSE
       ELSE UNCHANGED <<sections, showImportModal>>
    /\ UNCHANGED <<mode, practiceVars, samplerVars, callVars, selectedIds, showExportModal,
                   activeId, deleteId, dragItem, editorVars>>

\* onClick={() => setShowImportModal(true)}
OpenImport ==
    /\ Clickable
    /\ showImportModal' = TRUE
    /\ UNCHANGED <<mode, practiceVars, samplerVars, callVars, sections, selectedIds,
                   showExportModal, activeId, deleteId, dragItem, editorVars>>

\* the Cancel button of the import modal
CloseImport ==
    /\ showImportModal
    /\ showImportModal' = FALSE
    /\ UNCHANGED <<mode, practiceVars, samplerVars, callVars, sections, selectedIds,
                   showExportModal, activeId, deleteId, dragItem, editorVars>>

\* handleImportFromText(jsonText), the Import from Text button
HandleImportFromText ==
    /\ showImportModal
    /\ \E json \in ImportTexts(sections) : Imported(TextSections(json, UsedIds))

\* handleImportFromFiles(files); the readers finish in any order
HandleImportFromFiles ==
    /\ showImportModal
    /\ \E files \in ImportFiles(sections) :
          \E r \in 0..(Factorial(Len(files)) - 1) :
             Imported(FileSections(LoadOrder(files, r), 1, <<>>, UsedIds))

(***************************************************************************)
(* The dashboard: selection, deletion, export, reordering.                 *)
(***************************************************************************)
\* the section cards of the dashboard take clicks
OnDashboard == mode = "dashboard" /\ Clickable

\* toggleSelection(id), the checkbox of a section card
ToggleSelection(id) ==
    /\ OnDashboard
    /\ selectedIds' = IF id \in selectedIds THEN selectedIds \ {id}
                      ELSE selectedIds \cup {id}
    /\ UNCHANGED <<mode, practiceVars, samplerVars, callVars, sections, showExportModal,
                   showImportModal, activeId, deleteId, dragItem, editorVars>>

\* selectAll()
SelectAll ==
    /\ OnDashboard
    /\ Len(sections) > 0
    /\ selectedIds' = IF Cardinality(selectedIds) = Len(sections) THEN {}
                      ELSE SectionIds(sections)
    /\ UNCHANGED <<mode, practiceVars, samplerVars, callVars, sections, showExportModal,
                   showImportModal, activeId, deleteId, dragItem, editorVars>>

\* handleDeleteClick(id), the trash button of a section card
HandleDeleteClick(id) ==
    /\ OnDashboard
    /\ deleteId' = id
    /\ UNCHANGED <<mode, practiceVars, samplerVars, callVars, sections, selectedIds,
                   showExportModal, showImportModal, activeId, dragItem, editorVars>>

\* the bulk action bar is rendered: selectedIds.size > 0 && mode === 'dashboard'
BulkBarShown == Cardinality(selectedIds) > 0 /\ OnDashboard

\* onClick={() => setDeleteId('BULK')}
BulkDeleteClick ==
    /\ BulkBarShown
    /\ deleteId' = Bulk
    /\ UNCHANGED <<mode, practiceVars, samplerVars, callVars, sections, selectedIds,
                   showExportModal, showImportModal, activeId, dragItem, editorVars>>

\* the Cancel button of the delete modal
CancelDelete ==
    /\ deleteId # Null
    /\ deleteId' = Null
    /\ UNCHANGED <<mode, practiceVars, samplerVars, callVars, sections, selectedIds,
                   showExportModal, showImportModal, activeId, dragItem, editorVars>>

\* the selected ids that belong to no section of list
Stale(list) == selectedIds \ SectionIds(list)

\* confirmDelete()
ConfirmDelete ==
    /\ deleteId # Null
    /\ Cardinality(Stale(SelectSeq(sections, LAMBDA s : s.id # deleteId))) <= MaxStale
    /\ IF deleteId = Bulk
       THEN /\ sections' = SelectSeq(sections, LAMBDA s : s.id \notin selectedIds)
            /\ selectedIds' = {}
       ELSE /\ sections' = SelectSeq(sections, LAMBDA s : s.id # deleteId)
            /\ UNCHANGED selectedIds
    /\ deleteId' = Null
    /\ UNCHANGED <<mode, practiceVars, samplerVars, callVars, showExportModal,
                   showImportModal, activeId, dragItem, editorVars>>

\* onClick={() => setShowExportModal(true)}
OpenExport ==
    /\ BulkBarShown
    /\ showExportModal' = TRUE
    /\ UNCHANGED <<mode, practiceVars, samplerVars, callVars, sections, selectedIds,
                   showImportModal, activeId, deleteId, dragItem, editorVars>>

\* the Cancel button of the export modal
CloseExport ==
    /\ showExportModal
    /\ showExportModal' = FALSE
    /\ UNCHANGED <<mode, practiceVars, samplerVars, callVars, sections, selectedIds,
                   showImportModal, activeId, deleteId, dragItem, editorVars>>

\* handleBulkExport(singleFile): the download leaves the state alone
HandleBulkExport ==
    /\ showExportModal
    /\ showExportModal' = FALSE
    /\ selectedIds' = {}
    /\ UNCHANGED <<mode, practiceVars, samplerVars, callVars, sections, showImportModal,
                   activeId, deleteId, dragItem, editorVars>>

\* handleDragStart(e, position)
HandleDragStart(position) ==
    /\ OnDashboard
    /\ dragItem' = position
    /\ UNCHANGED <<mode, practiceVars, samplerVars, callVars, sections, selectedIds,
                   showExportModal, showImportModal, activeId, deleteId, editorVars>>

\* newSections.splice(position, 0, item), positions counted from 0
InsertAt(list, position, item) ==
    SubSeq(list, 1, position) \o <<item>> \o SubSeq(list, position + 1, Len(list))

\* handleDragEnter(e, position)
HandleDragEnter(position) ==
    /\ mode = "dashboard"
    /\ NoModal
    /\ dragItem # -1
    /\ dragItem # position
    /\ LET draggedItemContent == sections[dragItem + 1]
       IN  sections' = InsertAt(RemoveAt(sections, dragItem + 1), position,
                                draggedItemContent)
    /\ dragItem' = position
    /\ UNCHANGED <<mode, practiceVars, samplerVars, callVars, selectedIds, showExportModal,
                   showImportModal, activeId, deleteId, editorVars>>

\* handleDragEnd()
HandleDragEnd ==
    /\ mode = "dashboard"
    /\ NoModal
    /\ dragItem # -1
    /\ dragItem' = -1
    /\ UNCHANGED <<mode, practiceVars, samplerVars, callVars, sections, selectedIds,
                   showExportModal, showImportModal, activeId, deleteId, editorVars>>

(***************************************************************************)
(* Navigation between the views.                                           *)
(***************************************************************************)
\* the useState initial values of a practice component mounted on list
FreshPractice(list) ==
    /\ section' = list
    /\ mounted' = FALSE
    /\ questions' = <<>>
    /\ cards' = <<>>
    /\ index' = 0
    /\ isDone' = FALSE
    /\ isFlipped' = FALSE
    /\ forgotten' = <<>>
    /\ remembered' = 0
    /\ timers' = 0
    /\ lastResponse' = NoResponses
    /\ userInput' = <<>>
    /\ showFeedback' = FALSE
    /\ isCorrect' = FALSE
    /\ incorrect' = <<>>
    /\ correct' = 0
    /\ userAnswers' = NoAnswers
    /\ showAnswers' = FALSE

\* React unmounts the practice component: its state is discarded
DiscardPractice == FreshPractice(<<>>)

\* React unmounts SectionEditor: its state is discarded
DiscardEditor ==
    /\ title' = Str(<<>>)
    /\ desc' = <<>>
    /\ editorCards' = <<>>

\* SectionEditor mounts on section={activeSection || null}, position 0 being
\* null: useState(section?.title || ''), useState(section?.description || ''),
\* useState(section?.cards || [])
MountEditor(position) ==
    IF position = 0
    THEN DiscardEditor
    ELSE /\ title' = IF Truthy(sections[position].title) THEN sections[position].title
                     ELSE Str(<<>>)
         /\ desc' = sections[position].description
         /\ editorCards' = sections[position].cards

\* the page is rendered: no render has thrown
AppShown == ~RenderThrows

\* variant of SetModeDashboard: the component that is left keeps its state
SetModeDashboardKeep ==
    /\ AppShown
    /\ Clickable
    /\ mode' = "dashboard"
    /\ DiscardEditor
    /\ UNCHANGED <<practiceVars, samplerVars, callVars, appVars>>

\* setMode('dashboard'): the logo, the Flashcard tab, onClose of a practice
\* view or of the listening view, onCancel of the editor
SetModeDashboard ==
    /\ AppShown
    /\ Clickable
    /\ mode' = "dashboard"
    /\ DiscardPractice
    /\ DiscardEditor
    /\ UNCHANGED <<samplerVars, callVars, appVars>>

\* onClick={() => setMode('listening')}
SetModeListening ==
    /\ AppShown
    /\ Clickable
    /\ mode' = "listening"
    /\ DiscardPractice
    /\ DiscardEditor
    /\ UNCHANGED <<samplerVars, callVars, appVars>>

\* onClick={() => { setMode('edit'); setActiveId(null); }}: an editor that is
\* already mounted stays mounted and keeps its state
NewSection ==
    /\ AppShown
    /\ Clickable
    /\ mode' = "edit"
    /\ activeId' = Null
    /\ IF mode = "edit" THEN UNCHANGED editorVars ELSE MountEditor(0)
    /\ DiscardPractice
    /\ UNCHANGED <<samplerVars, callVars, sections, selectedIds, showExportModal,
                   showImportModal, deleteId, dragItem>>

\* onClick={() => setMode('edit')}, the Create Now button of the empty dashboard
CreateNow ==
    /\ OnDashboard
    /\ Len(sections) = 0
    /\ mode' = "edit"
    /\ MountEditor(ActiveSection)
    /\ UNCHANGED <<practiceVars, samplerVars, callVars, appVars>>

\* handleEdit(id)
HandleEdit(id) ==
    /\ OnDashboard
    /\ activeId' = id
    /\ mode' = "edit"
    /\ MountEditor(Find(sections, id))
    /\ UNCHANGED <<practiceVars, samplerVars, callVars, sections, selectedIds,
                   showExportModal, showImportModal, deleteId, dragItem>>

\* onClick={() => { setActiveId(s.id); setMode(m); }}: the practice component
\* of mode m mounts on activeSection
EnterPractice(id, m) ==
    /\ OnDashboard
    /\ activeId' = id
    /\ mode' = m
    /\ FreshPractice(sections[Find(sections, id)].cards)
    /\ UNCHANGED <<samplerVars, callVars, sections, selectedIds, showExportModal,
                   showImportModal, deleteId, dragItem, editorVars>>

(***************************************************************************)
(* SectionEditor.                                                          *)
(***************************************************************************)
TitleInputs == {<<" ">>, <<"I">>}
DescInputs == {<<"d">>}
FieldInputs(field) == IF field = "vocab" THEN {<<"w">>} ELSE {<<"m">>}

\* the editor takes input
EditorShown == mode = "edit" /\ Clickable

\* onChange={e => setTitle(e.target.value)}
SetTitle(value) ==
    /\ EditorShown
    /\ title' = Str(value)
    /\ UNCHANGED <<mode, practiceVars, samplerVars, callVars, appVars, desc, editorCards>>

\* onChange={e => setDesc(e.target.value)}
SetDesc(value) ==
    /\ EditorShown
    /\ desc' = value
    /\ UNCHANGED <<mode, practiceVars, samplerVars, callVars, appVars, title, editorCards>>

\* addCard()
AddCard ==
    /\ EditorShown
    /\ Len(editorCards) < MaxEditorCards
    /\ editorCards' = Append(editorCards, Card(FreshUUID(CardIds(editorCards)), <<>>, <<>>))
    /\ UNCHANGED <<mode, practiceVars, samplerVars, callVars, appVars, title, desc>>

\* updateCard(id, field, value)
UpdateCard(id, field, value) ==
    /\ EditorShown
    /\ editorCards' = [i \in 1..Len(editorCards) |->
                          IF editorCards[i].id = id
                          THEN [editorCards[i] EXCEPT ![field] = value]
                          ELSE editorCards[i]]
    /\ UNCHANGED <<mode, practiceVars, samplerVars, callVars, appVars, title, desc>>

\* removeCard(id)
RemoveCard(id) ==
    /\ EditorShown
    /\ editorCards' = SelectSeq(editorCards, LAMBDA c : c.id # id)
    /\ UNCHANGED <<mode, practiceVars, samplerVars, callVars, appVars, title, desc>>

\* cards.filter(c => c.vocab.trim() && c.meaning.trim())
ValidCards(list) ==
    SelectSeq(list, LAMBDA c : Trim(c.vocab) # <<>> /\ Trim(c.meaning) # <<>>)

\* variant of HandleSave: the saved section always goes to the end
HandleSaveAtEnd(s) ==
    /\ sections' = Append(SelectSeq(sections, LAMBDA p : p.id # s.id), s)
    /\ mode' = "dashboard"
    /\ activeId' = Null

\* App.handleSave(s)
HandleSave(s) ==
    /\ sections' = IF Find(sections, s.id) # 0
                   THEN [i \in 1..Len(sections) |->
                            IF sections[i].id = s.id THEN s ELSE sections[i]]
                   ELSE Append(sections, s)
    /\ mode' = "dashboard"
    /\ activeId' = Null

\* SectionEditor.handleSave() on section={activeSection || null}; title.trim()
\* throws when the title is not a string, and the handler ends there
SectionEditorHandleSave ==
    /\ EditorShown
    /\ LET validCards == ValidCards(editorCards)
           position == ActiveSection
       IN  IF title.kind # "string" \/ Trim(title.value) = <<>> \/ Len(validCards) = 0
           THEN UNCHANGED vars
           ELSE /\ position = 0 => Len(sections) < MaxSections
                /\ HandleSave(Section(
                       IF position # 0 THEN sections[position].id
                       ELSE FreshUUID(UsedIds),
                       title, desc, validCards,
                       IF position # 0 /\ sections[position].createdAt # 0
                       THEN sections[position].createdAt ELSE DateNow))
                /\ DiscardEditor
                /\ UNCHANGED <<practiceVars, samplerVars, callVars, selectedIds,
                               showExportModal, showImportModal, deleteId, dragItem>>

(***************************************************************************)
(* App with its editor: the collection under every handler.                *)
(***************************************************************************)
InitApp ==
    /\ mode = "dashboard"
    /\ section = <<>>
    /\ InitialState
    /\ InitialApp
    /\ InitialEditor
    /\ NoCall

\* import, single deletion and reordering
NextCollection ==
    \/ OpenImport
    \/ CloseImport
    \/ HandleImportFromText
    \/ HandleImportFromFiles
    \/ \E id \in SectionIds(sections) : HandleDeleteClick(id)
    \/ CancelDelete
    \/ ConfirmDelete
    \/ \E position \in 0..(Len(sections) - 1) : HandleDragStart(position)
    \/ \E position \in 0..(Len(sections) - 1) : HandleDragEnter(position)
    \/ HandleDragEnd

\* the selection and the bulk actions
NextSelection ==
    \/ \E id \in SectionIds(sections) : ToggleSelection(id)
    \/ SelectAll
    \/ BulkDeleteClick
    \/ OpenExport
    \/ CloseExport
    \/ HandleBulkExport

\* the editor
NextEditor ==
    \/ SetModeDashboard
    \/ NewSection
    \/ CreateNow
    \/ \E id \in SectionIds(sections) : HandleEdit(id)
    \/ \E value \in TitleInputs : SetTitle(value)
    \/ \E value \in DescInputs : SetDesc(value)
    \/ AddCard
    \/ \E id \in CardIds(editorCards), field \in {"vocab", "meaning"} :
          \E value \in FieldInputs(field) : UpdateCard(id, field, value)
    \/ \E id \in CardIds(editorCards) : RemoveCard(id)
    \/ SectionEditorHandleSave

(***************************************************************************)
(* The editor on a saved collection.                                       *)
(***************************************************************************)
\* the sections localStorage can hold: a pasted export, a hand-written section
\* with an empty card, a section with a number as title
StoredSections(id) ==
    {Section(id, Str(<<"I">>), <<>>, <<CompleteCard>>, 1),
     Section(id, Str(<<"I">>), <<>>, <<EmptyCard>>, 0),
     Section(id, Num(<<"7">>), <<>>, <<CompleteCard>>, 0)}

\* JSON.parse(saved): the collections of at most max sections
StoredCollections(max) ==
    UNION {{list \in [1..n -> UNION {StoredSections(RandomUUID(i)) : i \in 1..n}] :
               \A i \in 1..n : list[i].id = RandomUUID(i)} : n \in 0..max}

InitEditor ==
    /\ mode = "dashboard"
    /\ section = <<>>
    /\ InitialState
    /\ sections \in StoredCollections(MaxSections)
    /\ selectedIds = {}
    /\ showExportModal = FALSE
    /\ showImportModal = FALSE
    /\ activeId = Null
    /\ deleteId = Null
    /\ dragItem = -1
    /\ InitialEditor
    /\ NoCall

SpecEditor == InitEditor /\ [][NextEditor]_vars

NextDashboard == NextCollection \/ NextSelection

SpecDashboard == InitApp /\ [][NextDashboard]_vars

NextApp == NextCollection \/ NextEditor

SpecApp == InitApp /\ [][NextApp]_vars

----------------------------------------------------------------------------
\* Import and the dashboard selection

\* an element that has a string title (one that is not empty) and an array cards
ValidElement(data) ==
    /\ data.kind = "object"
    /\ data.title.kind = "string"
    /\ data.title.value # <<>>
    /\ IsArray(data.cards)

\* title and cards of the sections of list, in order
Contents(list) == [i \in 1..Len(list) |-> <<list[i].title, list[i].cards>>]

\* title and cards of the valid elements of a parsed text, in order
ValidContents(json) ==
    IF json.kind = "invalid" THEN <<>>
    ELSE LET valid == SelectSeq(DataList(json), ValidElement)
         IN  [i \in 1..Len(valid) |-> <<valid[i].title, valid[i].cards.value>>]

\* the sections a step appends to the collection
Appended == SubSeq(sections', Len(sections) + 1, Len(sections'))

\* C21: a step that imports a pasted text appends to the collection exactly
\* the elements of the parsed text that have a string title and an array
\* cards, and leaves the sections that were there alone
C21_ImportValidation ==
    [][\A json \in ImportTexts(sections) :
          (showImportModal /\ sections' # sections
              /\ sections' = sections \o TextSections(json, UsedIds))
          => Contents(Appended) = ValidContents(json)]_vars

\* C28: every selected id is the id of a section of the collection
C28_SelectionExists == selectedIds \subseteq SectionIds(sections)

----------------------------------------------------------------------------
\* The collection under saves, imports, deletions and reordering

\* C22: every card of every section of the collection, each of which the
\* dashboard hands to a practice mode on a click, has a non-empty vocab and a
\* non-empty meaning
C22_ValidCards ==
    \A i \in 1..Len(sections) :
       \A k \in 1..Len(sections[i].cards) :
          sections[i].cards[k].vocab # <<>> /\ sections[i].cards[k].meaning # <<>>

\* C23: no two sections of the collection have the same id
C23_UniqueIds ==
    \A i \in 1..Len(sections) :
       \A j \in 1..Len(sections) : i # j => sections[i].id # sections[j].id

\* the same export imported twice, next to nothing else
C23_Witness ==
    /\ Len(sections) = 2
    /\ sections[1].createdAt = 1
    /\ sections[2].createdAt = 1
    /\ Contents(sections)[1] = Contents(sections)[2]
    /\ sections[1].id # sections[2].id

\* the editor shows no title, no description and no card
EditorEmpty == title = Str(<<>>) /\ desc = <<>> /\ editorCards = <<>>

\* C29: a step that activates New Section (the editor is shown and activeId
\* becomes null) leaves an editor without title, description and cards
C29_NewSectionEmpty ==
    [][(mode' = "edit" /\ activeId # Null /\ activeId' = Null) => EditorEmpty']_vars

\* the editor would reject a save: blank title or no complete card
SaveRejected ==
    \/ title.kind # "string"
    \/ Trim(title.value) = <<>>
    \/ Len(ValidCards(editorCards)) = 0

\* a step of the editor while no modal is open: only a save changes the
\* collection
EditorStep == mode = "edit" /\ Clickable

\* the stored section holds only cards of the editor with a non-empty vocab
\* and a non-empty meaning
StoresCompleteCards(s) ==
    \A k \in 1..Len(s.cards) :
       /\ s.cards[k] \in Range(editorCards)
       /\ s.cards[k].vocab # <<>>
       /\ s.cards[k].meaning # <<>>

\* the step replaces the section at position and nothing else; keepsCreatedAt
\* tells whether the createdAt of the section has to stay
Replaces(position, keepsCreatedAt) ==
    /\ Len(sections') = Len(sections)
    /\ \A i \in 1..Len(sections) : i # position => sections'[i] = sections[i]
    /\ sections'[position].id = sections[position].id
    /\ keepsCreatedAt => sections'[position].createdAt = sections[position].createdAt
    /\ StoresCompleteCards(sections'[position])

\* the step appends one section and nothing else
Appends ==
    /\ Len(sections') = Len(sections) + 1
    /\ SubSeq(sections', 1, Len(sections)) = sections
    /\ StoresCompleteCards(sections'[Len(sections')])

----------------------------------------------------------------------------
(***************************************************************************)
(* Navigation: entering and leaving the practice views of a saved          *)
(* collection.                                                             *)
(***************************************************************************)
\* the collection localStorage holds: a section of typed cards and a section
\* with a single card
PracticeCollection ==
    << Section(RandomUUID(1), Str(<<"I">>), <<>>, SubSeq(TypedCards, 1, 2), 1),
       Section(RandomUUID(2), Str(<<"I">>), <<>>, SubSeq(PlainCards, 1, 1), 1) >>

InitNavigate ==
    /\ mode = "dashboard"
    /\ section = <<>>
    /\ InitialState
    /\ sections = PracticeCollection
    /\ selectedIds = {}
    /\ showExportModal = FALSE
    /\ showImportModal = FALSE
    /\ activeId = Null
    /\ deleteId = Null
    /\ dragItem = -1
    /\ InitialEditor
    /\ NoCall

NextNavigate ==
    \/ \E id \in SectionIds(sections), m \in PracticeModes : EnterPractice(id, m)
    \/ SetModeDashboard
    \/ SetModeListening
    \/ NewSection
    \/ NextPractice

SpecNavigate == InitNavigate /\ [][NextNavigate]_vars

\* a session as it starts: not done, at index 0, no answers, zero tallies
SessionFresh ==
    /\ ~isDone
    /\ index = 0
    /\ userAnswers = NoAnswers
    /\ lastResponse = NoResponses
    /\ remembered = 0
    /\ forgotten = <<>>
    /\ correct = 0
    /\ incorrect = <<>>
    /\ userInput = <<>>
    /\ ~showFeedback
    /\ ~isFlipped
    /\ timers = 0
    /\ cards = <<>>
    /\ questions = <<>>
    /\ ~mounted

----------------------------------------------------------------------------
(***************************************************************************)
(* ListeningTest: the score of a section of the test data.                 *)
(***************************************************************************)
MaxParts == 2           \* most parts of a section of the test data

\* a question of a part: QuestionBase
Question(id, answer) == [id |-> id, answer |-> TextAnswer(answer)]

\* the cells of a table row: a string, a TableCell, or an array of TableCells;
\* the id "" stands for a TableCell without id
StringCell == [kind |-> "string", cells |-> <<>>]
ObjectCell(id, answer) == [kind |-> "object", cells |-> <<Question(id, answer)>>]
ArrayCell(list) == [kind |-> "array", cells |-> list]

\* a Part: its type, its questions (none when absent) and the cells of the
\* rows of its table (none when absent)
Part(type, list, table) == [type |-> type, questions |-> list, table |-> table]

\* parts as the test data holds them
ListeningParts ==
    {Part("form_completion", <<Question("example", <<"x">>), Question("q1", <<"a">>)>>, <<>>),
     Part("form_completion", <<Question("n/a", <<"x">>), Question("q2", <<"b">>)>>, <<>>),
     Part("sentence_completion", <<Question("q3", <<"a">>)>>, <<>>),
     Part("multiple_choice_single", <<Question("q4", <<"b">>)>>, <<>>),
     Part("table_completion", <<>>,
          <<StringCell, ObjectCell("q5", <<"a">>), ObjectCell("", <<>>),
            ArrayCell(<<Question("q6", <<"b">>)>>)>>)}

\* the sections of the test data
ListeningSections == UNION {[1..n -> ListeningParts] : n \in 1..MaxParts}

\* what the user enters into an input
ScoreInputs == {<<"a">>, <<"b">>}

\* the concatenation of the sequences of a sequence
RECURSIVE Flatten(_)
Flatten(lists) ==
    IF Len(lists) = 0 THEN <<>> ELSE Head(lists) \o Flatten(Tail(lists))

\* the entries calculateScore counts in a part: every question, and every
\* table cell (alone or in an array) that has an id
Counted(part) ==
    part.questions
        \o SelectSeq(Flatten([i \in 1..Len(part.table) |-> part.table[i].cells]),
                     LAMBDA c : c.id # "")

\* the entries renderQuestions gives an input
Rendered(part) ==
    CASE part.type = "form_completion" ->
            SelectSeq(part.questions, LAMBDA q : ~(q.id = "example" \/ q.id = "n/a"))
      [] part.type \in {"multiple_choice_single", "multiple_choice_multi",
                        "sentence_completion", "note_completion"} ->
            part.questions
      [] part.type = "table_completion" ->
            Flatten([i \in 1..Len(part.table) |->
                        IF part.table[i].kind = "array" THEN part.table[i].cells
                        ELSE SelectSeq(part.table[i].cells, LAMBDA c : c.id # "")])
      [] OTHER -> <<>>

CountedIn(parts) == Flatten([i \in 1..Len(parts) |-> Counted(parts[i])])

RenderedIn(parts) == Flatten([i \in 1..Len(parts) |-> Rendered(parts[i])])

\* calculateScore() on selectedSection.parts
CalculateScore(parts) ==
    LET counted == CountedIn(parts)
    IN  [correct |-> Cardinality({i \in 1..Len(counted) :
                                     ListeningCheckAnswer(counted[i].id, counted[i].answer)}),
         total |-> Len(counted)]

InitScore ==
    /\ mode = "listening"
    /\ section = <<>>
    /\ InitialState
    /\ InitialApp
    /\ InitialEditor
    /\ NoCall

\* setSelectedSection(section); the effect on [selectedSection] resets the
\* answers
SelectSection ==
    /\ mode = "listening"
    /\ section = <<>>
    /\ \E parts \in ListeningSections : section' = parts
    /\ userAnswers' = NoAnswers
    /\ showAnswers' = FALSE
    /\ UNCHANGED <<mode, mounted, genVars, passVars, flashVars, historyVars, respVars,
                   samplerVars, callVars, appVars, editorVars>>

\* onChange of the input of a rendered question or cell, disabled once the
\* answers are shown
ListeningAnswer ==
    /\ mode = "listening"
    /\ ~showAnswers
    /\ \E i \in 1..Len(RenderedIn(section)), value \in ScoreInputs :
          HandleAnswerChange(RenderedIn(section)[i].id, TextAnswer(value))

NextScore == SelectSection \/ ListeningAnswer \/ SubmitAnswers \/ TryAgain

SpecScore == InitScore /\ [][NextScore]_vars

\* every input of the section holds the reference answer
AllCorrect ==
    \A i \in 1..Len(RenderedIn(section)) :
       ListeningCheckAnswer(RenderedIn(section)[i].id, RenderedIn(section)[i].answer)

\* C27: once the answers of a section are submitted, the total of
\* calculateScore is the number of inputs the section renders, and a user
\* whose every input holds the reference answer has correct = total
C27_TotalAnswerable ==
    (mode = "listening" /\ section # <<>> /\ showAnswers) =>
        /\ CalculateScore(section).total = Len(RenderedIn(section))
        /\ AllCorrect => CalculateScore(section).correct = CalculateScore(section).total

=============================================================================
